---- MODULE Spec2Model ----
(***************************************************************************)
(* The interaction core of gcal-imp: the session state (AppState), the     *)
(* key dispatch of run_app and the handlers it calls, as a state machine.  *)
(* One state = the session between two key events.  Handlers are           *)
(* operators from a session record to a session record, named as in the    *)
(* source; one action per arm of run_app's dispatch.                       *)
(***************************************************************************)
EXTENDS Integers, Sequences, FiniteSets, TLC

VARIABLES running, mode, view, selected_date, events, sync_status,
          command_buffer, show_help, help_scroll, theme, event_form,
          selected_event_index, delete_confirmation_event_id,
          visual_selection_start, detail_view_event_id, detail_view_scroll,
          detail_view_cursor_line, detail_view_cursor_col,
          detail_view_visual_start

vars == <<running, mode, view, selected_date, events, sync_status,
          command_buffer, show_help, help_scroll, theme, event_form,
          selected_event_index, delete_confirmation_event_id,
          visual_selection_start, detail_view_event_id, detail_view_scroll,
          detail_view_cursor_line, detail_view_cursor_col,
          detail_view_visual_start>>

(***************************************************************************)
(* Option<T>: None is the empty sequence, Some(x) the one-element one.     *)
(***************************************************************************)
None == <<>>
Some(x) == <<x>>
IsSome(o) == o # <<>>
Unwrap(o) == o[1]

Min(a, b) == IF a <= b THEN a ELSE b
Max(a, b) == IF a >= b THEN a ELSE b

(***************************************************************************)
(* Bounds of the exploration.                                              *)
(***************************************************************************)
\* The calendar cursor is explored from Today to WindowDays days after it.
WindowDays == 1
\* Free-text fields (title, location, description) are explored up to this length.
MaxText == 1
\* At most this many events are held at once.
MaxEvents == 2
\* The help overlay is scrolled at most this far.
MaxHelpScroll == 1
\* The detail cursor is moved at most this far with j and l.
MaxCursor == 0

(***************************************************************************)
(* chrono::NaiveDate: a date is its day number (days since 1970-01-01).    *)
(***************************************************************************)
IsLeapYear(y) == (y % 4 = 0 /\ y % 100 # 0) \/ y % 400 = 0

DaysInMonth(y, m) ==
    IF m = 2 THEN (IF IsLeapYear(y) THEN 29 ELSE 28)
    ELSE IF m \in {4, 6, 9, 11} THEN 30 ELSE 31

\* NaiveDate::from_ymd_opt: None for a month or a day that does not exist.
from_ymd_opt(y, m, d) ==
    IF m < 1 \/ m > 12 \/ d < 1 \/ d > DaysInMonth(y, m) THEN None
    ELSE LET yy  == IF m <= 2 THEN y - 1 ELSE y
             era == yy \div 400
             yoe == yy - era * 400
             mp  == IF m > 2 THEN m - 3 ELSE m + 9
             doy == (153 * mp + 2) \div 5 + d - 1
             doe == yoe * 365 + yoe \div 4 - yoe \div 100 + doy
         IN  Some(era * 146097 + doe - 719468)

\* Datelike::{year, month, day} of a day number.
Civil(z) ==
    LET zz  == z + 719468
        era == zz \div 146097
        doe == zz - era * 146097
        yoe == (doe - doe \div 1460 + doe \div 36524 - doe \div 146096) \div 365
        doy == doe - (365 * yoe + yoe \div 4 - yoe \div 100)
        mp  == (5 * doy + 2) \div 153
        d   == doy - (153 * mp + 2) \div 5 + 1
        m   == IF mp < 10 THEN mp + 3 ELSE mp - 9
    IN  [year |-> yoe + era * 400 + (IF m <= 2 THEN 1 ELSE 0), month |-> m, day |-> d]

year(z) == Civil(z).year
month(z) == Civil(z).month
day(z) == Civil(z).day

\* Weekday::num_days_from_monday of a date: 1970-01-01 was a Thursday.
num_days_from_monday(date) == (date + 3) % 7

\* Local::now().date_naive() during the run: 2025-02-27.
Today == Unwrap(from_ymd_opt(2025, 2, 27))
\* Local::now().hour() when a blank form is built.
NowHour == 9

Dates == Today .. (Today + WindowDays)

(***************************************************************************)
(* Text is a sequence of one-character strings.                            *)
(***************************************************************************)
Digits == <<"0", "1", "2", "3", "4", "5", "6", "7", "8", "9">>
DigitChar(n) == Digits[n + 1]
is_ascii_digit(c) == \E i \in 1..10 : Digits[i] = c
DigitValue(c) == (CHOOSE i \in 1..10 : Digits[i] = c) - 1

Pop(str) == IF Len(str) = 0 THEN str ELSE SubSeq(str, 1, Len(str) - 1)
Push(str, c) == Append(str, c)

\* format!("{:02}:{:02}", h, m), for h and m below 100.
FormatTime(h, m) ==
    <<DigitChar(h \div 10), DigitChar(h % 10), ":", DigitChar(m \div 10), DigitChar(m % 10)>>

\* u32::to_string.
RECURSIVE to_string(_)
to_string(n) == IF n < 10 THEN <<DigitChar(n)>> ELSE Push(to_string(n \div 10), DigitChar(n % 10))

\* str::parse::<u32>: Ok(value) for a non-empty digit string, Err (None) otherwise.
\* Up to 9 digits always fit a u32; the buffers parsed hold at most 5 characters.
RECURSIVE DigitsValue(_)
DigitsValue(str) ==
    IF Len(str) = 0 THEN 0 ELSE DigitsValue(Pop(str)) * 10 + DigitValue(str[Len(str)])

parse_u32(str) ==
    IF Len(str) > 0 /\ (\A i \in 1..Len(str) : is_ascii_digit(str[i])) /\ Len(str) <= 9
    THEN Some(DigitsValue(str)) ELSE None

\* str::replace(':', "").
StripColons(str) == SelectSeq(str, LAMBDA c : c # ":")

(***************************************************************************)
(* calendar::Event.  start and end are minutes since 1970-01-01T00:00Z.    *)
(***************************************************************************)
MinutesPerDay == 1440

\* NaiveDate::and_hms_opt(h, m, 0).and_utc(): None for an hour or minute out of range.
and_hms_opt(date, h, m) ==
    IF h > 23 \/ m > 59 THEN None ELSE Some(date * MinutesPerDay + h * 60 + m)

date_naive(t) == t \div MinutesPerDay
hour(t) == (t % MinutesPerDay) \div 60
minute(t) == t % 60

duration_minutes(event) == event.end - event.start

Event(id, title, description, location, start, end, all_day, html_link) ==
    [id |-> id, title |-> title, description |-> description, location |-> location,
     start |-> start, end |-> end, all_day |-> all_day, html_link |-> html_link]

(***************************************************************************)
(* app::EventForm.                                                         *)
(***************************************************************************)
EventForm_new(date, title, now_hour) ==
    [title |-> title, date |-> date, start_hour |-> now_hour, start_minute |-> 0,
     duration_minutes |-> 60, location |-> <<>>, description |-> <<>>,
     active_field |-> "Title", event_id |-> None,
     time_input_buffer |-> FormatTime(now_hour, 0),
     duration_input_buffer |-> <<"6", "0">>,
     time_buffer_touched |-> FALSE, duration_buffer_touched |-> FALSE,
     all_day |-> FALSE]

unwrap_or_default(o) == IF IsSome(o) THEN Unwrap(o) ELSE <<>>

EventForm_for_event(event) ==
    [title |-> event.title, date |-> date_naive(event.start),
     start_hour |-> hour(event.start), start_minute |-> minute(event.start),
     duration_minutes |-> duration_minutes(event),
     location |-> unwrap_or_default(event.location),
     description |-> unwrap_or_default(event.description),
     active_field |-> "Title", event_id |-> Some(event.id),
     time_input_buffer |-> FormatTime(hour(event.start), minute(event.start)),
     duration_input_buffer |-> to_string(duration_minutes(event)),
     time_buffer_touched |-> FALSE, duration_buffer_touched |-> FALSE,
     all_day |-> event.all_day]

\* EventForm::new_all_day lasting one day less.
EventForm_new_all_day_exclusive(date, title, duration_days) ==
    [title |-> title, date |-> date, start_hour |-> 0, start_minute |-> 0,
     duration_minutes |-> (duration_days - 1) * 24 * 60, location |-> <<>>, description |-> <<>>,
     active_field |-> "Title", event_id |-> None,
     time_input_buffer |-> <<>>,
     duration_input_buffer |-> to_string(duration_days),
     time_buffer_touched |-> FALSE, duration_buffer_touched |-> FALSE,
     all_day |-> TRUE]

EventForm_new_all_day(date, title, duration_days) ==
    [title |-> title, date |-> date, start_hour |-> 0, start_minute |-> 0,
     duration_minutes |-> duration_days * 24 * 60, location |-> <<>>, description |-> <<>>,
     active_field |-> "Title", event_id |-> None,
     time_input_buffer |-> <<>>,
     duration_input_buffer |-> to_string(duration_days),
     time_buffer_touched |-> FALSE, duration_buffer_touched |-> FALSE,
     all_day |-> TRUE]

\* EventForm::next_field visiting StartTime in an all-day form too.
next_field_through_start_time(form) ==
    [form EXCEPT !.active_field =
        IF form.all_day
        THEN CASE @ = "Title" -> "StartTime"
               [] @ = "Duration" -> "Location"
               [] @ = "Location" -> "Description"
               [] @ = "Description" -> "Title"
               [] @ = "StartTime" -> "Duration"
        ELSE CASE @ = "Title" -> "StartTime"
               [] @ = "StartTime" -> "Duration"
               [] @ = "Duration" -> "Location"
               [] @ = "Location" -> "Description"
               [] @ = "Description" -> "Title"]

next_field(form) ==
    [form EXCEPT !.active_field =
        IF form.all_day
        THEN CASE @ = "Title" -> "Duration"
               [] @ = "Duration" -> "Location"
               [] @ = "Location" -> "Description"
               [] @ = "Description" -> "Title"
               [] @ = "StartTime" -> "Duration"
        ELSE CASE @ = "Title" -> "StartTime"
               [] @ = "StartTime" -> "Duration"
               [] @ = "Duration" -> "Location"
               [] @ = "Location" -> "Description"
               [] @ = "Description" -> "Title"]

prev_field(form) ==
    [form EXCEPT !.active_field =
        IF form.all_day
        THEN CASE @ = "Title" -> "Description"
               [] @ = "Duration" -> "Title"
               [] @ = "Location" -> "Duration"
               [] @ = "Description" -> "Location"
               [] @ = "StartTime" -> "Title"
        ELSE CASE @ = "Title" -> "Description"
               [] @ = "StartTime" -> "Title"
               [] @ = "Duration" -> "StartTime"
               [] @ = "Location" -> "Duration"
               [] @ = "Description" -> "Location"]

\* EventForm::parse_time_input without the clamp of the minute.
parse_time_input_minutes_unclamped(form) ==
    LET input == StripColons(form.time_input_buffer)
        num   == parse_u32(input)
    IN  IF ~IsSome(num) THEN form
        ELSE IF Len(input) = 3 \/ Len(input) = 4
        THEN LET h == IF Unwrap(num) \div 100 >= 24 THEN 23 ELSE Unwrap(num) \div 100
                 m == Unwrap(num) % 100
             IN  [form EXCEPT !.start_hour = h, !.start_minute = m,
                              !.time_input_buffer = FormatTime(h, m)]
        ELSE IF Len(input) <= 2
        THEN LET h == Min(Unwrap(num), 23)
             IN  [form EXCEPT !.start_hour = h, !.start_minute = 0,
                              !.time_input_buffer = FormatTime(h, 0)]
        ELSE form

\* EventForm::parse_time_input without the limit of 23 on a one- or two-digit hour.
parse_time_input_hour_unclamped(form) ==
    LET input == StripColons(form.time_input_buffer)
        num   == parse_u32(input)
    IN  IF ~IsSome(num) THEN form
        ELSE IF Len(input) = 3 \/ Len(input) = 4
        THEN LET h == IF Unwrap(num) \div 100 >= 24 THEN 23 ELSE Unwrap(num) \div 100
                 m == IF Unwrap(num) % 100 >= 60 THEN 59 ELSE Unwrap(num) % 100
             IN  [form EXCEPT !.start_hour = h, !.start_minute = m,
                              !.time_input_buffer = FormatTime(h, m)]
        ELSE IF Len(input) <= 2
        THEN LET h == Unwrap(num)
             IN  [form EXCEPT !.start_hour = h, !.start_minute = 0,
                              !.time_input_buffer = FormatTime(h, 0)]
        ELSE form

parse_time_input(form) ==
    LET input == StripColons(form.time_input_buffer)
        num   == parse_u32(input)
    IN  IF ~IsSome(num) THEN form
        ELSE IF Len(input) = 3 \/ Len(input) = 4
        THEN LET h == IF Unwrap(num) \div 100 >= 24 THEN 23 ELSE Unwrap(num) \div 100
                 m == IF Unwrap(num) % 100 >= 60 THEN 59 ELSE Unwrap(num) % 100
             IN  [form EXCEPT !.start_hour = h, !.start_minute = m,
                              !.time_input_buffer = FormatTime(h, m)]
        ELSE IF Len(input) <= 2
        THEN LET h == Min(Unwrap(num), 23)
             IN  [form EXCEPT !.start_hour = h, !.start_minute = 0,
                              !.time_input_buffer = FormatTime(h, 0)]
        ELSE form

clamp(v, lo, hi) == IF v < lo THEN lo ELSE IF v > hi THEN hi ELSE v

\* EventForm::parse_duration_input without the clamp of a timed duration.
parse_duration_input_unclamped(form) ==
    LET value == parse_u32(form.duration_input_buffer)
    IN  IF ~IsSome(value) THEN form
        ELSE IF form.all_day
        THEN [form EXCEPT !.duration_minutes = clamp(Unwrap(value), 1, 365) * 24 * 60]
        ELSE [form EXCEPT !.duration_minutes = Unwrap(value)]

\* EventForm::parse_duration_input falling back to the default duration when the text does not parse.
parse_duration_input_resets_on_failure(form) ==
    LET value == parse_u32(form.duration_input_buffer)
    IN  IF ~IsSome(value) THEN [form EXCEPT !.duration_minutes = 60, !.duration_input_buffer = <<"6", "0">>]
        ELSE IF form.all_day
        THEN [form EXCEPT !.duration_minutes = clamp(Unwrap(value), 1, 365) * 24 * 60]
        ELSE [form EXCEPT !.duration_minutes = clamp(Unwrap(value), 1, 10080)]

parse_duration_input(form) ==
    LET value == parse_u32(form.duration_input_buffer)
    IN  IF ~IsSome(value) THEN form
        ELSE IF form.all_day
        THEN [form EXCEPT !.duration_minutes = clamp(Unwrap(value), 1, 365) * 24 * 60]
        ELSE [form EXCEPT !.duration_minutes = clamp(Unwrap(value), 1, 10080)]

(***************************************************************************)
(* app::AppState.  App is the session as a record; handlers map a session  *)
(* record to the session record after the handler.                         *)
(***************************************************************************)
App ==
    [running |-> running, mode |-> mode, view |-> view, selected_date |-> selected_date,
     events |-> events, sync_status |-> sync_status, command_buffer |-> command_buffer,
     show_help |-> show_help, help_scroll |-> help_scroll, theme |-> theme,
     event_form |-> event_form, selected_event_index |-> selected_event_index,
     delete_confirmation_event_id |-> delete_confirmation_event_id,
     visual_selection_start |-> visual_selection_start,
     detail_view_event_id |-> detail_view_event_id,
     detail_view_scroll |-> detail_view_scroll,
     detail_view_cursor_line |-> detail_view_cursor_line,
     detail_view_cursor_col |-> detail_view_cursor_col,
     detail_view_visual_start |-> detail_view_visual_start]

NoEvents == [id \in {} |-> None]

Synced == [kind |-> "Synced", msg |-> <<>>]
Syncing == [kind |-> "Syncing", msg |-> <<>>]
\* SyncStatus::Error(format!("<what>: {}", e)): the prefix and the collaborator's reason.
Error(what, e) == [kind |-> "Error", msg |-> <<what, e>>]

AppState_new ==
    [running |-> TRUE, mode |-> "Normal", view |-> "Month", selected_date |-> Today,
     events |-> NoEvents, sync_status |-> Synced, command_buffer |-> <<>>,
     show_help |-> FALSE, help_scroll |-> 0, theme |-> "default",
     event_form |-> None, selected_event_index |-> 0,
     delete_confirmation_event_id |-> None, visual_selection_start |-> None,
     detail_view_event_id |-> None, detail_view_scroll |-> 0,
     detail_view_cursor_line |-> 0, detail_view_cursor_col |-> 0,
     detail_view_visual_start |-> None]

\* HashMap::insert / HashMap::remove on the events map (a function from ids to events).
add_event(s, event) ==
    [s EXCEPT !.events = [id \in DOMAIN s.events \cup {event.id} |->
                            IF id = event.id THEN event ELSE s.events[id]]]

\* remove_event emptying the map.
remove_event_and_others(s, event_id) ==
    [s EXCEPT !.events = NoEvents]

remove_event(s, event_id) ==
    [s EXCEPT !.events = [id \in DOMAIN s.events \ {event_id} |-> s.events[id]]]

\* The filter of get_events_for_date keeping an event on every day from its start to its end.
EventsOn_every_day_of_range(evs, date) == {id \in DOMAIN evs : date_naive(evs[id].start) <= date /\ date <= date_naive(evs[id].end)}

EventsOn(evs, date) == {id \in DOMAIN evs : date_naive(evs[id].start) = date}

\* The vectors get_events_for_date can return: the ids of the events starting on
\* date, by start time; the map's iteration order decides between equal starts.
get_events_for_date(evs, date) ==
    LET ids == EventsOn(evs, date)
        n   == Cardinality(ids)
    IN  {order \in [1..n -> ids] :
            /\ \A i, j \in 1..n : i # j => order[i] # order[j]
            /\ \A i, j \in 1..n : i < j => evs[order[i]].start <= evs[order[j]].start}

\* order: the vector get_events_for_date(selected_date) returns in this step.
get_selected_event(s, order) ==
    IF s.selected_event_index < Len(order)
    THEN Some(s.events[order[s.selected_event_index + 1]]) ELSE None

move_event_selection_down(s) ==
    LET event_count == Cardinality(EventsOn(s.events, s.selected_date))
    IN  IF event_count > 0 /\ s.selected_event_index < event_count - 1
        THEN [s EXCEPT !.selected_event_index = @ + 1] ELSE s

move_event_selection_up(s) ==
    IF s.selected_event_index > 0 THEN [s EXCEPT !.selected_event_index = @ - 1] ELSE s

reset_event_selection(s) == [s EXCEPT !.selected_event_index = 0]

\* get_visual_selection_range returning the anchor first whatever the direction.
get_visual_selection_range_in_entry_order(s) ==
    IF IsSome(s.visual_selection_start)
    THEN LET start == Unwrap(s.visual_selection_start)
             end   == s.selected_date
         IN  Some(<<start, end>>)
    ELSE None

get_visual_selection_range(s) ==
    IF IsSome(s.visual_selection_start)
    THEN LET start == Unwrap(s.visual_selection_start)
             end   == s.selected_date
         IN  IF start <= end THEN Some(<<start, end>>) ELSE Some(<<end, start>>)
    ELSE None

(***************************************************************************)
(* input::normal_mode.                                                     *)
(***************************************************************************)
has_events_on_selected_date(s) == EventsOn(s.events, s.selected_date) # {}

move_previous_day(s) ==
    reset_event_selection([s EXCEPT !.selected_date = @ - 1])

move_next_day(s) ==
    reset_event_selection([s EXCEPT !.selected_date = @ + 1])

move_down_week(s) == [s EXCEPT !.selected_date = @ + 7]

move_up_week(s) == [s EXCEPT !.selected_date = @ - 7]

jump_to_today(s) == reset_event_selection([s EXCEPT !.selected_date = Today])

\* enter_edit_mode opening an empty form when no event is selected.
enter_edit_mode_without_event(s, order) ==
    LET event == get_selected_event(s, order)
    IN  IF IsSome(event)
        THEN [s EXCEPT !.event_form = Some(EventForm_for_event(Unwrap(event))),
                       !.mode = "Insert"]
        ELSE [s EXCEPT !.event_form = Some(EventForm_new(s.selected_date, <<>>, NowHour)),
                       !.mode = "Insert"]

enter_edit_mode(s, order) ==
    LET event == get_selected_event(s, order)
    IN  IF IsSome(event)
        THEN [s EXCEPT !.event_form = Some(EventForm_for_event(Unwrap(event))),
                       !.mode = "Insert"]
        ELSE s

\* delete_selected_event asking for the confirmation without entering Visual mode.
delete_selected_event_stays_normal(s, order) ==
    LET event == get_selected_event(s, order)
    IN  IF IsSome(event)
        THEN [s EXCEPT !.delete_confirmation_event_id = Some(Unwrap(event).id)]
        ELSE s

delete_selected_event(s, order) ==
    LET event == get_selected_event(s, order)
    IN  IF IsSome(event)
        THEN [s EXCEPT !.delete_confirmation_event_id = Some(Unwrap(event).id),
                       !.mode = "Visual"]
        ELSE s

enter_visual_mode(s) ==
    [s EXCEPT !.visual_selection_start = Some(s.selected_date), !.mode = "Visual"]

\* open_event_detail_view remembering the event's title in place of its id.
open_event_detail_view_by_title(s, order) ==
    LET event == get_selected_event(s, order)
    IN  IF IsSome(event)
        THEN [s EXCEPT !.detail_view_event_id = Some(Unwrap(event).title),
                       !.detail_view_scroll = 0,
                       !.detail_view_cursor_line = 0,
                       !.detail_view_cursor_col = 0]
        ELSE s

open_event_detail_view(s, order) ==
    LET event == get_selected_event(s, order)
    IN  IF IsSome(event)
        THEN [s EXCEPT !.detail_view_event_id = Some(Unwrap(event).id),
                       !.detail_view_scroll = 0,
                       !.detail_view_cursor_line = 0,
                       !.detail_view_cursor_col = 0]
        ELSE s

handle_enter_key(s, order) ==
    CASE s.view \in {"Month", "Week"} -> [s EXCEPT !.view = "Day"]
      [] s.view = "Day" ->
            IF IsSome(get_selected_event(s, order)) THEN enter_edit_mode(s, order) ELSE s
      [] OTHER -> s

switch_to_month_view(s) == [s EXCEPT !.view = "Month"]
switch_to_week_view(s) == [s EXCEPT !.view = "Week"]
switch_to_day_view(s) == [s EXCEPT !.view = "Day"]
switch_to_year_view(s) == [s EXCEPT !.view = "Year"]

enter_insert_mode(s) ==
    [s EXCEPT !.event_form = Some(EventForm_new(s.selected_date, <<>>, NowHour)),
              !.mode = "Insert"]

enter_command_mode(s) == [s EXCEPT !.mode = "Command", !.command_buffer = <<":">>]

show_help_command(s) ==
    [s EXCEPT !.mode = "Command", !.command_buffer = <<":", "h", "e", "l", "p">>]

handle_gg_motion(s) ==
    LET first == from_ymd_opt(year(s.selected_date), month(s.selected_date), 1)
    IN  IF IsSome(first) THEN [s EXCEPT !.selected_date = Unwrap(first)] ELSE s

move_to_end_of_month(s) ==
    LET y == year(s.selected_date)
        m == month(s.selected_date)
        next_month_first == IF m = 12 THEN from_ymd_opt(y + 1, 1, 1)
                            ELSE from_ymd_opt(y, m + 1, 1)
    IN  IF IsSome(next_month_first)
        THEN [s EXCEPT !.selected_date = Unwrap(next_month_first) - 1] ELSE s

\* move_previous_month wrapping January to December of the same year.
move_previous_month_same_year(s) ==
    LET y == year(s.selected_date)
        m == month(s.selected_date)
        d == day(s.selected_date)
        new_year  == y
        new_month == IF m = 1 THEN 12 ELSE m - 1
        first_try == from_ymd_opt(new_year, new_month + 1, 1)
        next_month_first == IF IsSome(first_try) THEN first_try
                            ELSE from_ymd_opt(new_year + 1, 1, 1)
    IN  IF ~IsSome(next_month_first) THEN s
        ELSE LET last     == Unwrap(next_month_first) - 1
                 new_day  == Min(d, day(last))
                 new_date == from_ymd_opt(new_year, new_month, new_day)
             IN  IF IsSome(new_date) THEN [s EXCEPT !.selected_date = Unwrap(new_date)] ELSE s

move_previous_month(s) ==
    LET y == year(s.selected_date)
        m == month(s.selected_date)
        d == day(s.selected_date)
        new_year  == IF m = 1 THEN y - 1 ELSE y
        new_month == IF m = 1 THEN 12 ELSE m - 1
        first_try == from_ymd_opt(new_year, new_month + 1, 1)
        next_month_first == IF IsSome(first_try) THEN first_try
                            ELSE from_ymd_opt(new_year + 1, 1, 1)
    IN  IF ~IsSome(next_month_first) THEN s
        ELSE LET last     == Unwrap(next_month_first) - 1
                 new_day  == Min(d, day(last))
                 new_date == from_ymd_opt(new_year, new_month, new_day)
             IN  IF IsSome(new_date) THEN [s EXCEPT !.selected_date = Unwrap(new_date)] ELSE s

\* move_next_month keeping the day of month as it is.
move_next_month_unclamped(s) ==
    LET y == year(s.selected_date)
        m == month(s.selected_date)
        d == day(s.selected_date)
        new_year  == IF m = 12 THEN y + 1 ELSE y
        new_month == IF m = 12 THEN 1 ELSE m + 1
        next_month_first == IF new_month = 12 THEN from_ymd_opt(new_year + 1, 1, 1)
                            ELSE from_ymd_opt(new_year, new_month + 1, 1)
    IN  IF ~IsSome(next_month_first) THEN s
        ELSE LET last     == Unwrap(next_month_first) - 1
                 new_day  == d
                 new_date == from_ymd_opt(new_year, new_month, new_day)
             IN  IF IsSome(new_date) THEN [s EXCEPT !.selected_date = Unwrap(new_date)] ELSE s

move_next_month(s) ==
    LET y == year(s.selected_date)
        m == month(s.selected_date)
        d == day(s.selected_date)
        new_year  == IF m = 12 THEN y + 1 ELSE y
        new_month == IF m = 12 THEN 1 ELSE m + 1
        next_month_first == IF new_month = 12 THEN from_ymd_opt(new_year + 1, 1, 1)
                            ELSE from_ymd_opt(new_year, new_month + 1, 1)
    IN  IF ~IsSome(next_month_first) THEN s
        ELSE LET last     == Unwrap(next_month_first) - 1
                 new_day  == Min(d, day(last))
                 new_date == from_ymd_opt(new_year, new_month, new_day)
             IN  IF IsSome(new_date) THEN [s EXCEPT !.selected_date = Unwrap(new_date)] ELSE s

normal_mode_handle_key(key, s, order) ==
    CASE key = "h" -> move_previous_day(s)
      [] key = "j" -> IF s.view = "Day" \/ has_events_on_selected_date(s)
                      THEN move_event_selection_down(s) ELSE move_down_week(s)
      [] key = "k" -> IF s.view = "Day" \/ has_events_on_selected_date(s)
                      THEN move_event_selection_up(s) ELSE move_up_week(s)
      [] key = "l" -> move_next_day(s)
      [] key = "t" -> jump_to_today(s)
      [] key = "m" -> switch_to_month_view(s)
      [] key = "w" -> switch_to_week_view(s)
      [] key = "d" -> switch_to_day_view(s)
      [] key = "y" -> switch_to_year_view(s)
      [] key = "a" -> enter_insert_mode(s)
      [] key = "E" -> enter_edit_mode(s, order)
      [] key = "x" -> delete_selected_event(s, order)
      [] key = "v" -> enter_visual_mode(s)
      [] key = "i" -> open_event_detail_view(s, order)
      [] key = "Enter" -> handle_enter_key(s, order)
      [] key = ":" -> enter_command_mode(s)
      [] key = "?" -> show_help_command(s)
      [] key = "g" -> handle_gg_motion(s)
      [] key = "G" -> move_to_end_of_month(s)
      [] key = "{" -> move_previous_month(s)
      [] key = "}" -> move_next_month(s)
      [] OTHER -> s

(***************************************************************************)
(* input::visual_mode.                                                     *)
(***************************************************************************)
\* format!("{}-day Event", n) and String::from("New Event").
DayEventTitle(n) == to_string(n) \o <<"-", "d", "a", "y", " ", "E", "v", "e", "n", "t">>
NewEventTitle == <<"N", "e", "w", " ", "E", "v", "e", "n", "t">>

\* visual_mode_handle_key with an Esc arm that keeps the date anchor.
visual_mode_handle_key_esc_keeps_anchor(key, s) ==
    CASE key = "h" -> [s EXCEPT !.selected_date = @ - 1]
      [] key = "l" -> [s EXCEPT !.selected_date = @ + 1]
      [] key = "j" -> [s EXCEPT !.selected_date = @ + 7]
      [] key = "k" -> [s EXCEPT !.selected_date = @ - 7]
      [] key \in {"a", "Enter"} ->
            LET range == get_visual_selection_range(s)
            IN  IF IsSome(range)
                THEN LET start == Unwrap(range)[1]
                         end   == Unwrap(range)[2]
                         duration_days == (end - start) + 1
                         form == IF duration_days = 1
                                 THEN EventForm_new(start, NewEventTitle, NowHour)
                                 ELSE EventForm_new_all_day(start, DayEventTitle(duration_days),
                                                            duration_days)
                     IN  [s EXCEPT !.event_form = Some(form),
                                   !.visual_selection_start = None,
                                   !.mode = "Insert"]
                ELSE s
      [] key = "Esc" -> [s EXCEPT !.mode = "Normal"]
      [] OTHER -> s

visual_mode_handle_key(key, s) ==
    CASE key = "h" -> [s EXCEPT !.selected_date = @ - 1]
      [] key = "l" -> [s EXCEPT !.selected_date = @ + 1]
      [] key = "j" -> [s EXCEPT !.selected_date = @ + 7]
      [] key = "k" -> [s EXCEPT !.selected_date = @ - 7]
      [] key \in {"a", "Enter"} ->
            LET range == get_visual_selection_range(s)
            IN  IF IsSome(range)
                THEN LET start == Unwrap(range)[1]
                         end   == Unwrap(range)[2]
                         duration_days == (end - start) + 1
                         form == IF duration_days = 1
                                 THEN EventForm_new(start, NewEventTitle, NowHour)
                                 ELSE EventForm_new_all_day(start, DayEventTitle(duration_days),
                                                            duration_days)
                     IN  [s EXCEPT !.event_form = Some(form),
                                   !.visual_selection_start = None,
                                   !.mode = "Insert"]
                ELSE s
      [] key = "Esc" -> [s EXCEPT !.visual_selection_start = None, !.mode = "Normal"]
      [] OTHER -> s

(***************************************************************************)
(* input::insert_mode.                                                     *)
(***************************************************************************)
NamedKeys == {"Esc", "Enter", "Tab", "BackTab", "Backspace", "F1"}
\* KeyCode::Char(c): every key that is not a named key is the character it names.
IsChar(key) == key \notin NamedKeys

ParseActiveField(form) ==
    CASE form.active_field = "StartTime" -> parse_time_input(form)
      [] form.active_field = "Duration" -> parse_duration_input(form)
      [] OTHER -> form

InsertBackspace(form) ==
    CASE form.active_field = "Title" -> [form EXCEPT !.title = Pop(@)]
      [] form.active_field = "StartTime" ->
            [form EXCEPT !.time_input_buffer = Pop(@), !.time_buffer_touched = TRUE]
      [] form.active_field = "Duration" ->
            [form EXCEPT !.duration_input_buffer = Pop(@), !.duration_buffer_touched = TRUE]
      [] form.active_field = "Location" -> [form EXCEPT !.location = Pop(@)]
      [] form.active_field = "Description" -> [form EXCEPT !.description = Pop(@)]

\* The Char arm of insert_mode::handle_key appending to an untouched duration buffer.
InsertChar_appends_to_default(form, c) ==
    CASE form.active_field = "Title" -> [form EXCEPT !.title = Push(@, c)]
      [] form.active_field = "StartTime" ->
            IF is_ascii_digit(c) \/ c = ":"
            THEN LET cleared == IF ~form.time_buffer_touched THEN <<>>
                                ELSE form.time_input_buffer
                 IN  [form EXCEPT !.time_buffer_touched = TRUE,
                                  !.time_input_buffer =
                                      IF Len(cleared) < 5 THEN Push(cleared, c) ELSE cleared]
            ELSE form
      [] form.active_field = "Duration" ->
            IF is_ascii_digit(c)
            THEN LET cleared == IF FALSE THEN <<>>
                                ELSE form.duration_input_buffer
                 IN  [form EXCEPT !.duration_buffer_touched = TRUE,
                                  !.duration_input_buffer =
                                      IF Len(cleared) < 5 THEN Push(cleared, c) ELSE cleared]
            ELSE form
      [] form.active_field = "Location" -> [form EXCEPT !.location = Push(@, c)]
      [] form.active_field = "Description" -> [form EXCEPT !.description = Push(@, c)]

InsertChar(form, c) ==
    CASE form.active_field = "Title" -> [form EXCEPT !.title = Push(@, c)]
      [] form.active_field = "StartTime" ->
            IF is_ascii_digit(c) \/ c = ":"
            THEN LET cleared == IF ~form.time_buffer_touched THEN <<>>
                                ELSE form.time_input_buffer
                 IN  [form EXCEPT !.time_buffer_touched = TRUE,
                                  !.time_input_buffer =
                                      IF Len(cleared) < 5 THEN Push(cleared, c) ELSE cleared]
            ELSE form
      [] form.active_field = "Duration" ->
            IF is_ascii_digit(c)
            THEN LET cleared == IF ~form.duration_buffer_touched THEN <<>>
                                ELSE form.duration_input_buffer
                 IN  [form EXCEPT !.duration_buffer_touched = TRUE,
                                  !.duration_input_buffer =
                                      IF Len(cleared) < 5 THEN Push(cleared, c) ELSE cleared]
            ELSE form
      [] form.active_field = "Location" -> [form EXCEPT !.location = Push(@, c)]
      [] form.active_field = "Description" -> [form EXCEPT !.description = Push(@, c)]

insert_mode_handle_key(key, s) ==
    IF ~IsSome(s.event_form) THEN s
    ELSE LET form == Unwrap(s.event_form)
         IN  CASE key = "Tab" ->
                    [s EXCEPT !.event_form = Some(next_field(ParseActiveField(form)))]
               [] key = "BackTab" ->
                    [s EXCEPT !.event_form = Some(prev_field(ParseActiveField(form)))]
               [] key = "Backspace" -> [s EXCEPT !.event_form = Some(InsertBackspace(form))]
               [] IsChar(key) -> [s EXCEPT !.event_form = Some(InsertChar(form, key))]
               [] OTHER -> s

(***************************************************************************)
(* input::command_mode.                                                    *)
(***************************************************************************)
is_whitespace(c) == c = " "

RECURSIVE trim_start(_)
trim_start(str) ==
    IF Len(str) > 0 /\ is_whitespace(Head(str)) THEN trim_start(Tail(str)) ELSE str

RECURSIVE trim_end(_)
trim_end(str) ==
    IF Len(str) > 0 /\ is_whitespace(str[Len(str)]) THEN trim_end(Pop(str)) ELSE str

trim(str) == trim_end(trim_start(str))

\* str::split_whitespace: the maximal runs of non-whitespace characters.
RECURSIVE SplitFrom(_, _, _)
SplitFrom(str, word, parts) ==
    IF Len(str) = 0 THEN (IF Len(word) > 0 THEN Append(parts, word) ELSE parts)
    ELSE IF is_whitespace(Head(str))
    THEN SplitFrom(Tail(str), <<>>, IF Len(word) > 0 THEN Append(parts, word) ELSE parts)
    ELSE SplitFrom(Tail(str), Append(word, Head(str)), parts)

split_whitespace(str) == SplitFrom(str, <<>>, <<>>)

\* str::split('-').
RECURSIVE SplitDash(_, _, _)
SplitDash(str, field, fields) ==
    IF Len(str) = 0 THEN Append(fields, field)
    ELSE IF Head(str) = "-" THEN SplitDash(Tail(str), <<>>, Append(fields, field))
    ELSE SplitDash(Tail(str), Append(field, Head(str)), fields)

\* NaiveDate::parse_from_str(token, "%Y-%m-%d"): a year, a month and a day of one or
\* two digits, separated by '-', that name a date of the calendar.
parse_from_str(token) ==
    LET fields == SplitDash(token, <<>>, <<>>)
    IN  IF Len(fields) # 3 THEN None
        ELSE LET y == parse_u32(fields[1])
                 m == parse_u32(fields[2])
                 d == parse_u32(fields[3])
             IN  IF IsSome(y) /\ IsSome(m) /\ IsSome(d)
                    /\ Len(fields[1]) <= 4 /\ Len(fields[2]) <= 2 /\ Len(fields[3]) <= 2
                 THEN from_ymd_opt(Unwrap(y), Unwrap(m), Unwrap(d))
                 ELSE None

\* [T]::join(" ").
RECURSIVE join(_)
join(parts) ==
    IF Len(parts) = 0 THEN <<>>
    ELSE IF Len(parts) = 1 THEN parts[1]
    ELSE parts[1] \o <<" ">> \o join(Tail(parts))

Command(kind, arg) == [kind |-> kind, arg |-> arg]

parse_command(input) ==
    LET trimmed == trim(input)
    IN  IF Len(trimmed) = 0 \/ Head(trimmed) # ":"
        THEN Command("Error", <<"Commands must start with ':'">>)
        ELSE LET parts == split_whitespace(Tail(trimmed))
             IN  IF Len(parts) = 0 THEN Command("Error", <<"Empty command">>)
                 ELSE CASE parts[1] \in {<<"q">>, <<"q", "u", "i", "t">>} -> Command("Quit", <<>>)
                        [] parts[1] \in {<<"w">>, <<"w", "r", "i", "t", "e">>} -> Command("Sync", <<>>)
                        [] parts[1] = <<"h", "e", "l", "p">> -> Command("Help", <<>>)
                        [] parts[1] = <<"g", "o", "t", "o">> ->
                              IF Len(parts) < 2
                              THEN Command("Error", <<"goto requires a date argument">>)
                              ELSE IF IsSome(parse_from_str(parts[2]))
                              THEN Command("Goto", parse_from_str(parts[2]))
                              ELSE Command("Error", <<"Invalid date format: ", parts[2]>>)
                        [] parts[1] = <<"n", "e", "w">> ->
                              IF Len(parts) < 2 THEN Command("NewEvent", None)
                              ELSE Command("NewEvent", Some(join(Tail(parts))))
                        [] parts[1] \in {<<"c", "a", "l">>, <<"c", "a", "l", "e", "n", "d", "a", "r">>} ->
                              IF Len(parts) < 2
                              THEN Command("Error", <<"cal requires a calendar name">>)
                              ELSE Command("SwitchCalendar", <<parts[2]>>)
                        [] parts[1] = <<"t", "h", "e", "m", "e">> ->
                              IF Len(parts) < 2
                              THEN Command("Error", <<"theme requires a theme name">>)
                              ELSE Command("Theme", <<parts[2]>>)
                        [] OTHER -> Command("Error", <<"Unknown command: ", parts[1]>>)

\* ui::theme::Theme::get_by_name: the named theme, the default one for any other name.
Theme_get_by_name(name) ==
    CASE name = <<"g", "r", "u", "v", "b", "o", "x">> -> "gruvbox"
      [] name = <<"n", "o", "r", "d">> -> "nord"
      [] name = <<"d", "r", "a", "c", "u", "l", "a">> -> "dracula"
      [] name \in {<<"s", "o", "l", "a", "r", "i", "z", "e", "d", "-", "d", "a", "r", "k">>, <<"s", "o", "l", "a", "r", "i", "z", "e", "d">>} -> "solarized-dark"
      [] name = <<"m", "o", "n", "o", "k", "a", "i">> -> "monokai"
      [] OTHER -> "default"

(***************************************************************************)
(* tui::session: the handlers run_app dispatches to.  outcome is the       *)
(* answer of the sync collaborator to the call the handler makes.          *)
(***************************************************************************)
handle_help_keys(code, s) ==
    CASE code = "j" -> [s EXCEPT !.help_scroll = @ + 1]
      [] code = "k" -> [s EXCEPT !.help_scroll = IF @ > 0 THEN @ - 1 ELSE 0]
      [] code \in {"q", "Esc"} -> [s EXCEPT !.show_help = FALSE, !.help_scroll = 0]
      [] OTHER -> s

(***************************************************************************)
(* tui::event_detail::navigation: word motions over the detail lines.      *)
(* Lines and columns are counted from 0, as in the source.                 *)
(***************************************************************************)
Letters ==
    {"a", "b", "c", "d", "e", "f", "g", "h", "i", "j", "k", "l", "m",
     "n", "o", "p", "q", "r", "s", "t", "u", "v", "w", "x", "y", "z",
     "A", "B", "C", "D", "E", "F", "G", "H", "I", "J", "K", "L", "M",
     "N", "O", "P", "Q", "R", "S", "T", "U", "V", "W", "X", "Y", "Z"}

is_word_char(ch) == ch \in Letters \/ is_ascii_digit(ch) \/ ch = "_"

\* last_char_index answering the count of characters, one past the last index.
last_char_index_without_saturation(text) == IF Len(text) = 0 THEN 0 ELSE Len(text)

last_char_index(text) == IF Len(text) = 0 THEN 0 ELSE Len(text) - 1

\* chars().position(|c| !c.is_whitespace()).
RECURSIVE position_non_whitespace(_, _)
position_non_whitespace(text, pos) ==
    IF pos >= Len(text) THEN None
    ELSE IF ~is_whitespace(text[pos + 1]) THEN Some(pos)
    ELSE position_non_whitespace(text, pos + 1)

find_first_non_whitespace(text) ==
    LET first == position_non_whitespace(text, 0)
    IN  IF IsSome(first) THEN Unwrap(first) ELSE 0

\* while pos < len && chars[pos].is_whitespace() { pos += 1 }
RECURSIVE SkipWhitespace(_, _)
SkipWhitespace(chars, pos) ==
    IF pos < Len(chars) /\ is_whitespace(chars[pos + 1])
    THEN SkipWhitespace(chars, pos + 1) ELSE pos

\* The first loop of find_next_word_start: past the run of the class (whitespace,
\* word, other) of the character the scan starts on.
RECURSIVE SkipRun(_, _, _, _)
SkipRun(chars, pos, whitespace, word) ==
    IF pos < Len(chars)
       /\ is_whitespace(chars[pos + 1]) = whitespace
       /\ (whitespace \/ is_word_char(chars[pos + 1]) = word)
    THEN SkipRun(chars, pos + 1, whitespace, word) ELSE pos

find_next_word_start(text, current_col) ==
    IF Len(text) = 0 THEN None
    ELSE LET len == Len(text)
             pos == Min(current_col, len - 1)
             run == SkipRun(text, pos, is_whitespace(text[pos + 1]),
                            is_word_char(text[pos + 1]))
             next == SkipWhitespace(text, run)
         IN  IF next < len THEN Some(next) ELSE None

\* The loop of find_word_end over the run the end is sought in.
RECURSIVE SkipWord(_, _, _)
SkipWord(chars, pos, is_word) ==
    IF pos < Len(chars) /\ ~is_whitespace(chars[pos + 1])
       /\ is_word_char(chars[pos + 1]) = is_word
    THEN SkipWord(chars, pos + 1, is_word) ELSE pos

find_word_end(text, current_col) ==
    IF Len(text) = 0 THEN None
    ELSE LET len == Len(text)
             pos == SkipWhitespace(text, current_col + 1)
         IN  IF pos >= len THEN None
             ELSE LET stop == SkipWord(text, pos, is_word_char(text[pos + 1]))
                  IN  Some(Min(IF stop > 0 THEN stop - 1 ELSE 0, len - 1))

\* while pos > 0 && chars[pos].is_whitespace() { pos -= 1 }
RECURSIVE SkipWhitespaceBack(_, _)
SkipWhitespaceBack(chars, pos) ==
    IF pos > 0 /\ is_whitespace(chars[pos + 1])
    THEN SkipWhitespaceBack(chars, pos - 1) ELSE pos

\* The last loop of find_prev_word_start: back to the first character of the run.
RECURSIVE RunStart(_, _, _)
RunStart(chars, pos, is_word) ==
    IF pos > 0 /\ ~is_whitespace(chars[pos]) /\ is_word_char(chars[pos]) = is_word
    THEN RunStart(chars, pos - 1, is_word) ELSE pos

find_prev_word_start(text, current_col) ==
    IF Len(text) = 0 THEN None
    ELSE LET start == Min(current_col, Len(text))
         IN  IF start = 0 THEN None
             ELSE LET pos == SkipWhitespaceBack(text, start - 1)
                  IN  IF is_whitespace(text[pos + 1]) THEN None
                      ELSE Some(RunStart(text, pos, is_word_char(text[pos + 1])))

\* The loop of next_word_position, line_idx being a line of lines.
RECURSIVE next_word_loop(_, _, _)
next_word_loop(lines, line_idx, col) ==
    LET line_text == lines[line_idx + 1]
        len == Len(line_text)
        last == line_idx + 1 >= Len(lines)
        first_non_ws == position_non_whitespace(lines[line_idx + 2], 0)
        next_line == IF IsSome(first_non_ws)
                     THEN <<line_idx + 1, Unwrap(first_non_ws)>>
                     ELSE next_word_loop(lines, line_idx + 1, 0)
        next_col == find_next_word_start(line_text, col)
    IN  IF len = 0 \/ col >= len
        THEN (IF last THEN <<line_idx, 0>> ELSE next_line)
        ELSE IF IsSome(next_col) THEN <<line_idx, Unwrap(next_col)>>
        ELSE IF last THEN <<line_idx, last_char_index(line_text)>>
        ELSE next_line

next_word_position(lines, line_idx, col) ==
    IF Len(lines) = 0 THEN <<0, 0>>
    ELSE next_word_loop(lines, Min(line_idx, Len(lines) - 1), col)

\* The loop of word_end_position, line_idx being a line of lines.
RECURSIVE word_end_loop(_, _, _)
word_end_loop(lines, line_idx, col) ==
    LET line_text == lines[line_idx + 1]
        len == Len(line_text)
        last == line_idx + 1 >= Len(lines)
        end_col == find_word_end(line_text, col)
    IN  IF len = 0 \/ col >= len
        THEN (IF last THEN <<line_idx, 0>> ELSE word_end_loop(lines, line_idx + 1, 0))
        ELSE IF IsSome(end_col) THEN <<line_idx, Unwrap(end_col)>>
        ELSE IF last THEN <<line_idx, last_char_index(line_text)>>
        ELSE word_end_loop(lines, line_idx + 1, 0)

word_end_position(lines, line_idx, col) ==
    IF Len(lines) = 0 THEN <<0, 0>>
    ELSE word_end_loop(lines, Min(line_idx, Len(lines) - 1), col)

\* prev_word_loop stopping at the start of the line the cursor is on instead of continuing on the line before.
prev_word_loop_within_line(lines, line_idx, col) ==
    LET line_text == lines[line_idx + 1]
        len == Len(line_text)
        safe_col == IF len = 0 THEN 0 ELSE Min(col, len)
        prev_col == find_prev_word_start(line_text, safe_col)
    IN  IF IsSome(prev_col) THEN <<line_idx, Unwrap(prev_col)>>
        ELSE IF line_idx = 0 THEN <<0, 0>>
        ELSE <<line_idx, 0>>

\* The loop of prev_word_position, line_idx being a line of lines.
RECURSIVE prev_word_loop(_, _, _)
prev_word_loop(lines, line_idx, col) ==
    LET line_text == lines[line_idx + 1]
        len == Len(line_text)
        safe_col == IF len = 0 THEN 0 ELSE Min(col, len)
        prev_col == find_prev_word_start(line_text, safe_col)
    IN  IF IsSome(prev_col) THEN <<line_idx, Unwrap(prev_col)>>
        ELSE IF line_idx = 0 THEN <<0, 0>>
        ELSE prev_word_loop(lines, line_idx - 1, Len(lines[line_idx]))

prev_word_position(lines, line_idx, col) ==
    IF Len(lines) = 0 THEN <<0, 0>>
    ELSE prev_word_loop(lines, Min(line_idx, Len(lines) - 1), col)

(***************************************************************************)
(* tui::event_detail::presentation: the lines of the detail panel.  A      *)
(* character outside ASCII is written as the name of its code point.       *)
(***************************************************************************)

\* NaiveDate::format("%A, %B %d, %Y"): %A by days since Monday, %B by month.
FormatLongDate(date) ==
    LET WeekdayNames ==
            <<<<"M", "o", "n", "d", "a", "y">>,
              <<"T", "u", "e", "s", "d", "a", "y">>,
              <<"W", "e", "d", "n", "e", "s", "d", "a", "y">>,
              <<"T", "h", "u", "r", "s", "d", "a", "y">>,
              <<"F", "r", "i", "d", "a", "y">>,
              <<"S", "a", "t", "u", "r", "d", "a", "y">>,
              <<"S", "u", "n", "d", "a", "y">>>>
        MonthNames ==
            <<<<"J", "a", "n", "u", "a", "r", "y">>,
              <<"F", "e", "b", "r", "u", "a", "r", "y">>,
              <<"M", "a", "r", "c", "h">>,
              <<"A", "p", "r", "i", "l">>,
              <<"M", "a", "y">>,
              <<"J", "u", "n", "e">>,
              <<"J", "u", "l", "y">>,
              <<"A", "u", "g", "u", "s", "t">>,
              <<"S", "e", "p", "t", "e", "m", "b", "e", "r">>,
              <<"O", "c", "t", "o", "b", "e", "r">>,
              <<"N", "o", "v", "e", "m", "b", "e", "r">>,
              <<"D", "e", "c", "e", "m", "b", "e", "r">>>>
    IN  WeekdayNames[num_days_from_monday(date) + 1] \o <<",", " ">>
            \o MonthNames[month(date)] \o <<" ">>
            \o <<DigitChar(day(date) \div 10), DigitChar(day(date) % 10)>> \o <<",", " ">>
            \o to_string(year(date))

\* html2text::from_read(.., 1000) followed by str::lines, for a text without markup
\* and shorter than the wrap width: the text without the blanks around it, on one line.
strip_html_lines(description) ==
    IF trim(description) = <<>> THEN <<>> ELSE <<trim(description)>>

\* No event of the session has attendees (every Event is built with attendees: vec![]).
build_event_detail_lines(event) ==
    LET date == date_naive(event.start)
        when == <<"U+1F4C5", " ">> \o FormatLongDate(date)
                    \o (IF event.all_day THEN <<>>
                        ELSE <<" ", "a", "t", " ">>
                                 \o FormatTime(hour(event.start), minute(event.start)))
        duration == duration_minutes(event)
        duration_days == (event.end - event.start) \div MinutesPerDay
        clock == <<"U+23F1", " ", " ">>
        length ==
            IF event.all_day
            THEN (IF duration_days > 1
                  THEN <<clock \o to_string(duration_days) \o <<" ", "d", "a", "y", "s">>>>
                  ELSE <<>>)
            ELSE IF duration >= 60
            THEN <<clock \o to_string(duration \div 60) \o <<" ", "h", "o", "u", "r">>
                       \o (IF duration \div 60 > 1 THEN <<"s">> ELSE <<>>) \o <<" ">>
                       \o to_string(duration % 60) \o <<" ", "m", "i", "n">>>>
            ELSE <<clock \o to_string(duration) \o <<" ", "m", "i", "n", "u", "t", "e", "s">>>>
        LocationHeading ==
            <<"U+1F4CD", " ", "L", "o", "c", "a", "t", "i", "o", "n", ":">>
        DescriptionHeading ==
            <<"U+1F4DD", " ", "D", "e", "s", "c", "r", "i", "p", "t", "i", "o", "n", ":">>
        MotionHelp ==
            <<"h", "j", "k", "l", " ", "=", " ", "M", "o", "v", "e", " ", "|", " ", "w", "b",
              "e", " ", "=", " ", "W", "o", "r", "d", " ", "|", " ", "0", "^", "$", " ", "=",
              " ", "L", "i", "n", "e", " ", "|", " ", "g", "G", " ", "=", " ", "T", "o", "p",
              "/", "B", "o", "t", "t", "o", "m">>
        ActionHelp ==
            <<"o", " ", "=", " ", "O", "p", "e", "n", " ", "U", "R", "L", " ", "|", " ", "y",
              " ", "=", " ", "Y", "a", "n", "k", " ", "l", "i", "n", "e", " ", "|", " ", "B",
              " ", "=", " ", "B", "r", "o", "w", "s", "e", "r", " ", "|", " ", "E", " ", "=",
              " ", "E", "d", "i", "t", " ", "|", " ", "q", "/", "E", "s", "c", " ", "=", " ",
              "C", "l", "o", "s", "e">>
        where ==
            IF IsSome(event.location)
            THEN <<<<>>, LocationHeading, <<" ", " ", " ">> \o Unwrap(event.location)>>
            ELSE <<>>
        what ==
            IF IsSome(event.description)
            THEN <<<<>>, DescriptionHeading, <<>>>> \o strip_html_lines(Unwrap(event.description))
            ELSE <<>>
    IN  <<event.title, <<>>, when>> \o length \o where \o what
            \o <<<<>>, MotionHelp, ActionHelp>>

\* refresh_detail_view_lines at the top of each iteration of run_app: the lines of
\* the event shown, none when it is no longer held or when no panel is open.
detail_view_line_text(s) ==
    IF IsSome(s.detail_view_event_id) /\ Unwrap(s.detail_view_event_id) \in DOMAIN s.events
    THEN build_event_detail_lines(s.events[Unwrap(s.detail_view_event_id)])
    ELSE <<>>

\* refresh_detail_view_lines leaves detail_view_line_text non-empty exactly when the
\* panel shows an event of the map (build_event_detail_lines never returns no line).
DetailLinesNonEmpty(s) ==
    IsSome(s.detail_view_event_id) /\ Unwrap(s.detail_view_event_id) \in DOMAIN s.events

\* chars[from..to] of a line, from and to counted from 0, to excluded.
Slice(chars, from, to) == SubSeq(chars, from + 1, to)

\* The selected_text handle_yank collects between the anchor and the cursor, a line
\* break being the character "\n".
RECURSIVE selected_text(_, _, _, _, _, _)
selected_text(lines, line_idx, start_line, start_col, end_line, end_col) ==
    IF line_idx > end_line \/ line_idx >= Len(lines)
    THEN <<>>
    ELSE LET chars == lines[line_idx + 1]
             start == Min(start_col, Len(chars))
             end == Min(end_col + 1, Len(chars))
             piece ==
                 IF line_idx = start_line /\ line_idx = end_line
                 THEN Slice(chars, start, end)
                 ELSE IF line_idx = start_line
                 THEN Slice(chars, start, Len(chars)) \o <<"\n">>
                 ELSE IF line_idx = end_line THEN Slice(chars, 0, end)
                 ELSE chars \o <<"\n">>
         IN  piece \o selected_text(lines, line_idx + 1, start_line, start_col,
                                    end_line, end_col)

\* text_to_yank taking the anchor as the start and the cursor as the end whatever their order.
text_to_yank_in_entry_order(s) ==
    LET lines == detail_view_line_text(s)
    IN  IF Len(lines) = 0 THEN <<>>
        ELSE IF IsSome(s.detail_view_visual_start)
        THEN LET anchor == Unwrap(s.detail_view_visual_start)
                 cursor_line == s.detail_view_cursor_line
                 cursor_col == s.detail_view_cursor_col
                 forward == TRUE
             IN  IF forward
                 THEN selected_text(lines, anchor[1], anchor[1], anchor[2],
                                    cursor_line, cursor_col)
                 ELSE selected_text(lines, cursor_line, cursor_line, cursor_col,
                                    anchor[1], anchor[2])
        ELSE IF s.detail_view_cursor_line < Len(lines)
        THEN lines[s.detail_view_cursor_line + 1]
        ELSE <<>>

\* The text handle_yank hands to copy_to_clipboard (nothing is copied when it is empty).
text_to_yank(s) ==
    LET lines == detail_view_line_text(s)
    IN  IF Len(lines) = 0 THEN <<>>
        ELSE IF IsSome(s.detail_view_visual_start)
        THEN LET anchor == Unwrap(s.detail_view_visual_start)
                 cursor_line == s.detail_view_cursor_line
                 cursor_col == s.detail_view_cursor_col
                 forward == anchor[1] < cursor_line
                                \/ (anchor[1] = cursor_line /\ anchor[2] <= cursor_col)
             IN  IF forward
                 THEN selected_text(lines, anchor[1], anchor[1], anchor[2],
                                    cursor_line, cursor_col)
                 ELSE selected_text(lines, cursor_line, cursor_line, cursor_col,
                                    anchor[1], anchor[2])
        ELSE IF s.detail_view_cursor_line < Len(lines)
        THEN lines[s.detail_view_cursor_line + 1]
        ELSE <<>>

handle_yank(s) ==
    IF DetailLinesNonEmpty(s) /\ IsSome(s.detail_view_visual_start)
    THEN [s EXCEPT !.detail_view_visual_start = None] ELSE s

\* The cursor of the panel placed on a (line, column) pair.
MoveCursor(s, position) ==
    [s EXCEPT !.detail_view_cursor_line = position[1],
              !.detail_view_cursor_col = position[2]]

handle_detail_view_keys(code, s) ==
    CASE code = "Esc" ->
            [s EXCEPT !.detail_view_event_id = None, !.detail_view_scroll = 0,
                      !.detail_view_cursor_line = 0, !.detail_view_cursor_col = 0]
      [] code = "j" -> [s EXCEPT !.detail_view_cursor_line = @ + 1]
      [] code = "k" -> [s EXCEPT !.detail_view_cursor_line = IF @ > 0 THEN @ - 1 ELSE 0]
      [] code = "h" -> [s EXCEPT !.detail_view_cursor_col = IF @ > 0 THEN @ - 1 ELSE 0]
      [] code = "l" -> [s EXCEPT !.detail_view_cursor_col = @ + 1]
      [] code = "0" -> [s EXCEPT !.detail_view_cursor_col = 0]
      [] code = "$" ->
            LET lines == detail_view_line_text(s)
            IN  IF s.detail_view_cursor_line < Len(lines)
                THEN [s EXCEPT !.detail_view_cursor_col =
                                   last_char_index(lines[s.detail_view_cursor_line + 1])]
                ELSE [s EXCEPT !.detail_view_cursor_col = 0]
      [] code = "^" ->
            LET lines == detail_view_line_text(s)
            IN  IF s.detail_view_cursor_line < Len(lines)
                THEN [s EXCEPT !.detail_view_cursor_col =
                                   find_first_non_whitespace(lines[s.detail_view_cursor_line + 1])]
                ELSE s
      [] code = "w" ->
            IF Len(detail_view_line_text(s)) > 0
            THEN MoveCursor(s, next_word_position(detail_view_line_text(s),
                                   s.detail_view_cursor_line, s.detail_view_cursor_col))
            ELSE s
      [] code = "b" ->
            IF Len(detail_view_line_text(s)) > 0
            THEN MoveCursor(s, prev_word_position(detail_view_line_text(s),
                                   s.detail_view_cursor_line, s.detail_view_cursor_col))
            ELSE s
      [] code = "e" ->
            IF Len(detail_view_line_text(s)) > 0
            THEN MoveCursor(s, word_end_position(detail_view_line_text(s),
                                   s.detail_view_cursor_line, s.detail_view_cursor_col))
            ELSE s
      [] code = "g" -> [s EXCEPT !.detail_view_cursor_line = 0, !.detail_view_scroll = 0]
      [] code = "G" -> [s EXCEPT !.detail_view_cursor_line = 999]
      [] code = "E" ->
            IF IsSome(s.detail_view_event_id)
               /\ Unwrap(s.detail_view_event_id) \in DOMAIN s.events
            THEN [s EXCEPT !.event_form =
                               Some(EventForm_for_event(s.events[Unwrap(s.detail_view_event_id)])),
                           !.mode = "Insert",
                           !.detail_view_event_id = None, !.detail_view_scroll = 0,
                           !.detail_view_cursor_line = 0, !.detail_view_cursor_col = 0]
            ELSE s
      [] code = "a" ->
            [s EXCEPT !.event_form = Some(EventForm_new(s.selected_date, <<>>, NowHour)),
                      !.mode = "Insert",
                      !.detail_view_event_id = None, !.detail_view_scroll = 0,
                      !.detail_view_cursor_line = 0, !.detail_view_cursor_col = 0,
                      !.detail_view_visual_start = None]
      [] code = "y" -> handle_yank(s)
      [] code = "q" -> [s EXCEPT !.running = FALSE]
      [] code = "v" ->
            IF IsSome(s.detail_view_visual_start)
            THEN [s EXCEPT !.detail_view_visual_start = None]
            ELSE [s EXCEPT !.detail_view_visual_start =
                               Some(<<s.detail_view_cursor_line, s.detail_view_cursor_col>>)]
      [] OTHER -> s

\* handle_command_mode leaving the status Syncing when the fetch fails.
handle_command_mode_sync_failure_unreported(code, s, outcome) ==
    CASE code = "Enter" ->
            LET cmd == parse_command(s.command_buffer)
            IN  CASE cmd.kind = "Quit" -> [s EXCEPT !.running = FALSE]
                  [] cmd.kind = "Sync" ->
                        LET s1 == [s EXCEPT !.command_buffer = <<>>, !.mode = "Normal",
                                            !.sync_status = Syncing]
                        IN  IF outcome.ok
                            THEN [s1 EXCEPT !.events = outcome.events, !.sync_status = Synced]
                            ELSE s1
                  [] cmd.kind = "Goto" ->
                        [s EXCEPT !.selected_date = Unwrap(cmd.arg), !.command_buffer = <<>>,
                                  !.mode = "Normal"]
                  [] cmd.kind = "Help" ->
                        [s EXCEPT !.show_help = ~@, !.command_buffer = <<>>, !.mode = "Normal"]
                  [] cmd.kind = "Theme" ->
                        [s EXCEPT !.theme = Theme_get_by_name(Unwrap(cmd.arg)),
                                  !.command_buffer = <<>>, !.mode = "Normal"]
                  [] cmd.kind = "NewEvent" ->
                        [s EXCEPT !.event_form =
                                      Some(EventForm_new(s.selected_date,
                                                         unwrap_or_default(cmd.arg), NowHour)),
                                  !.command_buffer = <<>>, !.mode = "Insert"]
                  [] OTHER -> [s EXCEPT !.command_buffer = <<>>, !.mode = "Normal"]
      [] code = "Esc" -> [s EXCEPT !.command_buffer = <<>>, !.mode = "Normal"]
      [] code = "Backspace" -> [s EXCEPT !.command_buffer = Pop(@)]
      [] IsChar(code) -> [s EXCEPT !.command_buffer = Push(@, code)]
      [] OTHER -> s

\* handle_command_mode keeping the buffer of a command it does not dispatch.
handle_command_mode_error_keeps_buffer(code, s, outcome) ==
    CASE code = "Enter" ->
            LET cmd == parse_command(s.command_buffer)
            IN  CASE cmd.kind = "Quit" -> [s EXCEPT !.running = FALSE]
                  [] cmd.kind = "Sync" ->
                        LET s1 == [s EXCEPT !.command_buffer = <<>>, !.mode = "Normal",
                                            !.sync_status = Syncing]
                        IN  IF outcome.ok
                            THEN [s1 EXCEPT !.events = outcome.events, !.sync_status = Synced]
                            ELSE [s1 EXCEPT !.sync_status = Error("Sync failed", outcome.e)]
                  [] cmd.kind = "Goto" ->
                        [s EXCEPT !.selected_date = Unwrap(cmd.arg), !.command_buffer = <<>>,
                                  !.mode = "Normal"]
                  [] cmd.kind = "Help" ->
                        [s EXCEPT !.show_help = ~@, !.command_buffer = <<>>, !.mode = "Normal"]
                  [] cmd.kind = "Theme" ->
                        [s EXCEPT !.theme = Theme_get_by_name(Unwrap(cmd.arg)),
                                  !.command_buffer = <<>>, !.mode = "Normal"]
                  [] cmd.kind = "NewEvent" ->
                        [s EXCEPT !.event_form =
                                      Some(EventForm_new(s.selected_date,
                                                         unwrap_or_default(cmd.arg), NowHour)),
                                  !.command_buffer = <<>>, !.mode = "Insert"]
                  [] OTHER -> [s EXCEPT !.mode = "Normal"]
      [] code = "Esc" -> [s EXCEPT !.command_buffer = <<>>, !.mode = "Normal"]
      [] code = "Backspace" -> [s EXCEPT !.command_buffer = Pop(@)]
      [] IsChar(code) -> [s EXCEPT !.command_buffer = Push(@, code)]
      [] OTHER -> s

handle_command_mode(code, s, outcome) ==
    CASE code = "Enter" ->
            LET cmd == parse_command(s.command_buffer)
            IN  CASE cmd.kind = "Quit" -> [s EXCEPT !.running = FALSE]
                  [] cmd.kind = "Sync" ->
                        LET s1 == [s EXCEPT !.command_buffer = <<>>, !.mode = "Normal",
                                            !.sync_status = Syncing]
                        IN  IF outcome.ok
                            THEN [s1 EXCEPT !.events = outcome.events, !.sync_status = Synced]
                            ELSE [s1 EXCEPT !.sync_status = Error("Sync failed", outcome.e)]
                  [] cmd.kind = "Goto" ->
                        [s EXCEPT !.selected_date = Unwrap(cmd.arg), !.command_buffer = <<>>,
                                  !.mode = "Normal"]
                  [] cmd.kind = "Help" ->
                        [s EXCEPT !.show_help = ~@, !.command_buffer = <<>>, !.mode = "Normal"]
                  [] cmd.kind = "Theme" ->
                        [s EXCEPT !.theme = Theme_get_by_name(Unwrap(cmd.arg)),
                                  !.command_buffer = <<>>, !.mode = "Normal"]
                  [] cmd.kind = "NewEvent" ->
                        [s EXCEPT !.event_form =
                                      Some(EventForm_new(s.selected_date,
                                                         unwrap_or_default(cmd.arg), NowHour)),
                                  !.command_buffer = <<>>, !.mode = "Insert"]
                  [] OTHER -> [s EXCEPT !.command_buffer = <<>>, !.mode = "Normal"]
      [] code = "Esc" -> [s EXCEPT !.command_buffer = <<>>, !.mode = "Normal"]
      [] code = "Backspace" -> [s EXCEPT !.command_buffer = Pop(@)]
      [] IsChar(code) -> [s EXCEPT !.command_buffer = Push(@, code)]
      [] OTHER -> s

\* (!text.is_empty()).then(|| text.clone()).
NonEmptyText(text) == IF Len(text) > 0 THEN Some(text) ELSE None

build_event_from_form(id, form, start, end, all_day, html_link) ==
    Event(id, form.title, NonEmptyText(form.description), NonEmptyText(form.location),
          start, end, all_day, html_link)

\* CommitForm returning to Insert mode when the collaborator fails.
CommitForm_failure_reverts_mode(s0, form, outcome) ==
    LET start == IF form.all_day THEN and_hms_opt(form.date, 0, 0)
                 ELSE and_hms_opt(form.date, form.start_hour, form.start_minute)
    IN  IF ~IsSome(start) THEN [s0 EXCEPT !.running = FALSE]
        ELSE LET end == IF form.all_day
                        THEN Unwrap(start) + (form.duration_minutes \div (24 * 60)) * MinutesPerDay
                        ELSE Unwrap(start) + form.duration_minutes
                 is_update == IsSome(form.event_id)
                 html_link == IF is_update /\ Unwrap(form.event_id) \in DOMAIN s0.events
                              THEN s0.events[Unwrap(form.event_id)].html_link ELSE None
                 event_id  == IF is_update THEN Unwrap(form.event_id) ELSE outcome.uuid
                 event == build_event_from_form(event_id, form, Unwrap(start), end,
                                                form.all_day, html_link)
                 s1 == [s0 EXCEPT !.sync_status = Syncing]
                 s2 == IF is_update
                       THEN IF outcome.ok
                            THEN [add_event(s1, event) EXCEPT !.sync_status = Synced]
                            ELSE [s1 EXCEPT !.sync_status = Error("Failed to update", outcome.e)]
                       ELSE IF outcome.ok
                            THEN [add_event(s1, [event EXCEPT !.id = outcome.id,
                                                              !.html_link = outcome.html_link])
                                    EXCEPT !.sync_status = Synced]
                            ELSE [s1 EXCEPT !.sync_status = Error("Failed to create", outcome.e)]
             IN  [s2 EXCEPT !.mode = IF outcome.ok THEN "Normal" ELSE "Insert"]

\* The Enter arm of handle_insert_mode once the form is taken and parsed.
CommitForm(s0, form, outcome) ==
    LET start == IF form.all_day THEN and_hms_opt(form.date, 0, 0)
                 ELSE and_hms_opt(form.date, form.start_hour, form.start_minute)
    IN  IF ~IsSome(start) THEN [s0 EXCEPT !.running = FALSE]
        ELSE LET end == IF form.all_day
                        THEN Unwrap(start) + (form.duration_minutes \div (24 * 60)) * MinutesPerDay
                        ELSE Unwrap(start) + form.duration_minutes
                 is_update == IsSome(form.event_id)
                 html_link == IF is_update /\ Unwrap(form.event_id) \in DOMAIN s0.events
                              THEN s0.events[Unwrap(form.event_id)].html_link ELSE None
                 event_id  == IF is_update THEN Unwrap(form.event_id) ELSE outcome.uuid
                 event == build_event_from_form(event_id, form, Unwrap(start), end,
                                                form.all_day, html_link)
                 s1 == [s0 EXCEPT !.sync_status = Syncing]
                 s2 == IF is_update
                       THEN IF outcome.ok
                            THEN [add_event(s1, event) EXCEPT !.sync_status = Synced]
                            ELSE [s1 EXCEPT !.sync_status = Error("Failed to update", outcome.e)]
                       ELSE IF outcome.ok
                            THEN [add_event(s1, [event EXCEPT !.id = outcome.id,
                                                              !.html_link = outcome.html_link])
                                    EXCEPT !.sync_status = Synced]
                            ELSE [s1 EXCEPT !.sync_status = Error("Failed to create", outcome.e)]
             IN  [s2 EXCEPT !.mode = "Normal"]

\* handle_insert_mode with an Esc arm that keeps the form.
handle_insert_mode_esc_keeps_form(code, s, outcome) ==
    CASE code = "Esc" -> [s EXCEPT !.mode = "Normal"]
      [] code = "Enter" ->
            IF IsSome(s.event_form)
            THEN CommitForm([s EXCEPT !.event_form = None],
                            parse_duration_input(parse_time_input(Unwrap(s.event_form))),
                            outcome)
            ELSE s
      [] OTHER -> insert_mode_handle_key(code, s)

handle_insert_mode(code, s, outcome) ==
    CASE code = "Esc" -> [s EXCEPT !.event_form = None, !.mode = "Normal"]
      [] code = "Enter" ->
            IF IsSome(s.event_form)
            THEN CommitForm([s EXCEPT !.event_form = None],
                            parse_duration_input(parse_time_input(Unwrap(s.event_form))),
                            outcome)
            ELSE s
      [] OTHER -> insert_mode_handle_key(code, s)

\* handle_delete_confirmation removing the event although the delete failed.
handle_delete_confirmation_removes_on_failure(code, s, outcome) ==
    CASE code \in {"y", "Y"} ->
            LET s1 == IF IsSome(s.delete_confirmation_event_id)
                      THEN LET event_id == Unwrap(s.delete_confirmation_event_id)
                               s0 == [s EXCEPT !.delete_confirmation_event_id = None,
                                               !.sync_status = Syncing]
                           IN  IF outcome.ok
                               THEN [remove_event(s0, event_id) EXCEPT
                                        !.sync_status = Synced,
                                        !.selected_event_index = IF @ > 0 THEN @ - 1 ELSE @]
                               ELSE [remove_event(s0, event_id) EXCEPT !.sync_status =
                                                   Error("Failed to delete event", outcome.e)]
                      ELSE s
            IN  [s1 EXCEPT !.mode = "Normal"]
      [] code \in {"n", "N", "Esc"} ->
            [s EXCEPT !.delete_confirmation_event_id = None, !.mode = "Normal"]
      [] OTHER -> s

\* handle_delete_confirmation handing every other key to Visual mode.
handle_delete_confirmation_ungated(code, s, outcome) ==
    CASE code \in {"y", "Y"} ->
            LET s1 == IF IsSome(s.delete_confirmation_event_id)
                      THEN LET event_id == Unwrap(s.delete_confirmation_event_id)
                               s0 == [s EXCEPT !.delete_confirmation_event_id = None,
                                               !.sync_status = Syncing]
                           IN  IF outcome.ok
                               THEN [remove_event(s0, event_id) EXCEPT
                                        !.sync_status = Synced,
                                        !.selected_event_index = IF @ > 0 THEN @ - 1 ELSE @]
                               ELSE [s0 EXCEPT !.sync_status =
                                                   Error("Failed to delete event", outcome.e)]
                      ELSE s
            IN  [s1 EXCEPT !.mode = "Normal"]
      [] code \in {"n", "N", "Esc"} ->
            [s EXCEPT !.delete_confirmation_event_id = None, !.mode = "Normal"]
      [] OTHER -> visual_mode_handle_key(code, s)

handle_delete_confirmation(code, s, outcome) ==
    CASE code \in {"y", "Y"} ->
            LET s1 == IF IsSome(s.delete_confirmation_event_id)
                      THEN LET event_id == Unwrap(s.delete_confirmation_event_id)
                               s0 == [s EXCEPT !.delete_confirmation_event_id = None,
                                               !.sync_status = Syncing]
                           IN  IF outcome.ok
                               THEN [remove_event(s0, event_id) EXCEPT
                                        !.sync_status = Synced,
                                        !.selected_event_index = IF @ > 0 THEN @ - 1 ELSE @]
                               ELSE [s0 EXCEPT !.sync_status =
                                                   Error("Failed to delete event", outcome.e)]
                      ELSE s
            IN  [s1 EXCEPT !.mode = "Normal"]
      [] code \in {"n", "N", "Esc"} ->
            [s EXCEPT !.delete_confirmation_event_id = None, !.mode = "Normal"]
      [] OTHER -> s

(***************************************************************************)
(* The environment: keys and the sync collaborator's answers.              *)
(***************************************************************************)
EventIds == <<"e1", "e2", "e3", "e4">>
Ids == {EventIds[i] : i \in 1..MaxEvents}

\* What fetch_events_around_date may return: nothing, or two events today.
FetchedEvents ==
    [id \in {"e1", "e2"} |->
        IF id = "e1"
        THEN Event("e1", <<"A">>, None, None, Today * MinutesPerDay + 9 * 60,
                   Today * MinutesPerDay + 10 * 60, FALSE, None)
        ELSE Event("e2", <<"B">>, None, None, Today * MinutesPerDay + 14 * 60,
                   Today * MinutesPerDay + 15 * 60, FALSE, None)]

FetchResults == {NoEvents, FetchedEvents}

\* A collaborator answer: ok or a failure with reason e; events for a fetch; id and
\* html_link for a create (uuid is the local Uuid::new_v4 the server id replaces).
Outcome(ok, fetched, id) ==
    [ok |-> ok, e |-> "timeout", events |-> fetched, uuid |-> "uuid", id |-> id,
     html_link |-> Some("url")]

NoCall == Outcome(TRUE, NoEvents, "e1")
PlainOutcomes == {Outcome(ok, NoEvents, "e1") : ok \in BOOLEAN}
FetchOutcomes == {Outcome(TRUE, f, "e1") : f \in FetchResults} \cup {Outcome(FALSE, NoEvents, "e1")}
\* The server assigns a created event an id no held event has.
CreateOutcomes(s) ==
    {Outcome(TRUE, NoEvents, id) : id \in Ids \ DOMAIN s.events}
        \cup {Outcome(FALSE, NoEvents, "e1")}

\* The colon-commands typed in Command mode: every prefix of these texts.
CommandTexts == {<<":", "q">>, <<":", "w">>, <<":", "h", "e", "l", "p">>, <<":", "z", "z">>, <<"q">>}

Prefixes(texts) == UNION {{SubSeq(str, 1, n) : n \in 0..Len(str)} : str \in texts}
Chars(texts) == UNION {{str[i] : i \in 1..Len(str)} : str \in texts}

NormalKeys ==
    {"h", "j", "k", "l", "t", "G", "m", "d", "a", "E", "x", "v", "i", "Enter", ":", "?", "F1"}
HelpKeys == {"j", "k", "q", "Esc", "F1"}
\* The text motions of the panel ($ ^ w b e) belong to the Detail Text Navigator.
DetailKeys ==
    {"Esc", "j", "k", "h", "l", "0", "g", "G", "E", "a", "o", "y", "p", "q", "v", "B", "F1"}
CommandKeys == {"Enter", "Esc", "Backspace", "F1"} \cup Chars(CommandTexts)
InsertKeys == {"Esc", "Enter", "Tab", "BackTab", "F1"}
VisualKeys == {"h", "j", "k", "l", "a", "Enter", "Esc", "F1"}
ConfirmKeys == {"y", "Y", "n", "N", "Esc", "h", "j", "k", "l", "a", "Enter", "F1"}

TextBounded(old, new) == Len(new) <= Len(old) \/ Len(new) <= MaxText

FormBounded(old, new) ==
    IsSome(new) /\ IsSome(old) =>
        /\ TextBounded(Unwrap(old).title, Unwrap(new).title)
        /\ TextBounded(Unwrap(old).location, Unwrap(new).location)
        /\ TextBounded(Unwrap(old).description, Unwrap(new).description)

\* The part of the program's state space the model explores.
Bounded(old, new) ==
    /\ new.selected_date \in Dates
    /\ Cardinality(DOMAIN new.events) <= MaxEvents
    /\ new.help_scroll <= MaxHelpScroll
    /\ new.detail_view_cursor_line \in (0..MaxCursor) \cup {999}
    /\ new.detail_view_cursor_col <= MaxCursor
    /\ FormBounded(old.event_form, new.event_form)

Commit(s) ==
    /\ running' = s.running
    /\ mode' = s.mode
    /\ view' = s.view
    /\ selected_date' = s.selected_date
    /\ events' = s.events
    /\ sync_status' = s.sync_status
    /\ command_buffer' = s.command_buffer
    /\ show_help' = s.show_help
    /\ help_scroll' = s.help_scroll
    /\ theme' = s.theme
    /\ event_form' = s.event_form
    /\ selected_event_index' = s.selected_event_index
    /\ delete_confirmation_event_id' = s.delete_confirmation_event_id
    /\ visual_selection_start' = s.visual_selection_start
    /\ detail_view_event_id' = s.detail_view_event_id
    /\ detail_view_scroll' = s.detail_view_scroll
    /\ detail_view_cursor_line' = s.detail_view_cursor_line
    /\ detail_view_cursor_col' = s.detail_view_cursor_col
    /\ detail_view_visual_start' = s.detail_view_visual_start

Step(s) == Bounded(App, s) /\ Commit(s)

\* A step of Command mode, the buffer staying a prefix of one of texts.
TypedStep(s, texts) == s.command_buffer \in Prefixes(texts) /\ Step(s)

(***************************************************************************)
(* run_tui: the session run_app starts from, after the initial fetch.      *)
(***************************************************************************)
run_tui(outcome) ==
    LET s0 == [AppState_new EXCEPT !.sync_status = Syncing]
    IN  IF outcome.ok
        THEN [s0 EXCEPT !.events = outcome.events, !.sync_status = Synced]
        ELSE [s0 EXCEPT !.sync_status = Error("Sync failed", outcome.e)]

Starts(s) ==
    /\ running = s.running
    /\ mode = s.mode
    /\ view = s.view
    /\ selected_date = s.selected_date
    /\ events = s.events
    /\ sync_status = s.sync_status
    /\ command_buffer = s.command_buffer
    /\ show_help = s.show_help
    /\ help_scroll = s.help_scroll
    /\ theme = s.theme
    /\ event_form = s.event_form
    /\ selected_event_index = s.selected_event_index
    /\ delete_confirmation_event_id = s.delete_confirmation_event_id
    /\ visual_selection_start = s.visual_selection_start
    /\ detail_view_event_id = s.detail_view_event_id
    /\ detail_view_scroll = s.detail_view_scroll
    /\ detail_view_cursor_line = s.detail_view_cursor_line
    /\ detail_view_cursor_col = s.detail_view_cursor_col
    /\ detail_view_visual_start = s.detail_view_visual_start

Init == \E outcome \in FetchOutcomes : Starts(run_tui(outcome))

(***************************************************************************)
(* run_app: one action per arm of the dispatch on (mode, overlay).         *)
(***************************************************************************)
HelpOverlayKey(keys) ==
    /\ running /\ mode = "Normal" /\ show_help
    /\ \E code \in keys : Step(handle_help_keys(code, App))

DetailViewKey(keys) ==
    /\ running /\ mode = "Normal" /\ ~show_help /\ IsSome(detail_view_event_id)
    /\ \E code \in keys : Step(handle_detail_view_keys(code, App))

NormalQuit ==
    /\ running /\ mode = "Normal" /\ ~show_help /\ ~IsSome(detail_view_event_id)
    /\ Step([App EXCEPT !.running = FALSE])

NormalKey(keys) ==
    /\ running /\ mode = "Normal" /\ ~show_help /\ ~IsSome(detail_view_event_id)
    /\ \E code \in keys :
         \E order \in get_events_for_date(events, selected_date) :
            Step(normal_mode_handle_key(code, App, order))

CommandKey(keys, texts) ==
    /\ running /\ mode = "Command"
    /\ \E code \in keys :
         \E outcome \in (IF code = "Enter" THEN FetchOutcomes ELSE {NoCall}) :
            TypedStep(handle_command_mode(code, App, outcome), texts)

InsertKey(keys) ==
    /\ running /\ mode = "Insert"
    /\ \E code \in keys :
         \E outcome \in (IF code = "Enter" THEN CreateOutcomes(App) ELSE {NoCall}) :
            Step(handle_insert_mode(code, App, outcome))

DeleteConfirmationKey(keys) ==
    /\ running /\ mode = "Visual" /\ IsSome(delete_confirmation_event_id)
    /\ \E code \in keys :
         \E outcome \in (IF code \in {"y", "Y"} THEN PlainOutcomes ELSE {NoCall}) :
            Step(handle_delete_confirmation(code, App, outcome))

VisualKey(keys) ==
    /\ running /\ mode = "Visual" /\ ~IsSome(delete_confirmation_event_id)
    /\ \E code \in keys : Step(visual_mode_handle_key(code, App))

Next ==
    \/ HelpOverlayKey(HelpKeys)
    \/ DetailViewKey(DetailKeys)
    \/ NormalQuit
    \/ NormalKey(NormalKeys)
    \/ CommandKey(CommandKeys, CommandTexts)
    \/ InsertKey(InsertKeys)
    \/ DeleteConfirmationKey(ConfirmKeys)
    \/ VisualKey(VisualKeys)

Spec == Init /\ [][Next]_vars

(***************************************************************************)
(* Session State invariants.                                               *)
(***************************************************************************)
\* C1: in every reachable state selected_event_index is smaller than the number of
\* events that start on selected_date, or is 0 when that date has no events.
C1_IndexWithinDay ==
    LET count == Cardinality(EventsOn(events, selected_date))
    IN  IF count = 0 THEN selected_event_index = 0 ELSE selected_event_index < count

\* The second event of a day was selected and the cursor then left that day by a motion
\* that does not reset the selection: the index says 1 on a day that has no event.
C1_StaleIndex ==
    /\ mode = "Normal"
    /\ EventsOn(events, selected_date) = {}
    /\ selected_event_index = 1

\* C2: in every reachable state event_form is present only while mode is Insert:
\* whenever mode is Normal, Visual or Command, event_form is absent.
C2_FormOnlyInInsert == IsSome(event_form) => mode = "Insert"

\* An edit form was committed (the update failed) and the form is gone.
C2_FormClosed ==
    /\ mode = "Normal"
    /\ ~IsSome(event_form)
    /\ sync_status = Error("Failed to update", "timeout")

\* C3: in every reachable state visual_selection_start is present only while mode is
\* Visual: whenever mode is Normal, Insert or Command, the date anchor is absent.
C3_AnchorOnlyInVisual == IsSome(visual_selection_start) => mode = "Visual"

\* A date range was selected and confirmed: its all-day form is open, the anchor gone.
C3_RangeConfirmed ==
    /\ mode = "Insert"
    /\ IsSome(event_form)
    /\ Unwrap(event_form).all_day
    /\ ~IsSome(Unwrap(event_form).event_id)
    /\ ~IsSome(visual_selection_start)

(***************************************************************************)
(* Properties of single dispatch steps.  A step is recognised by the       *)
(* handler that maps the state before it to the state after it.            *)
(***************************************************************************)
IsError(status, e) == status.kind = "Error" /\ Len(status.msg) = 2 /\ status.msg[2] = e

InInsert == running /\ mode = "Insert"
InCommand == running /\ mode = "Command"
InConfirmation == running /\ mode = "Visual" /\ IsSome(delete_confirmation_event_id)
InVisual == running /\ mode = "Visual" /\ ~IsSome(delete_confirmation_event_id)
InDetail == running /\ mode = "Normal" /\ ~show_help /\ IsSome(detail_view_event_id)
InNormal == running /\ mode = "Normal" /\ ~show_help /\ ~IsSome(detail_view_event_id)

\* C4: Enter in Insert mode always leaves mode = Normal and event_form absent, whether
\* the collaborator's create/update succeeds or fails; on failure sync_status is
\* Error(reason) and the mode is not reverted to Insert.
C4_EnterLeavesInsert ==
    [][InInsert =>
          \A outcome \in CreateOutcomes(App) :
              App' = handle_insert_mode("Enter", App, outcome) =>
                  /\ mode' = "Normal"
                  /\ event_form' = None
                  /\ ~outcome.ok => IsError(sync_status', outcome.e)]_vars

\* A new event's form was committed and the create failed: Normal mode, no form.
C4_CreateFailed ==
    /\ running
    /\ mode = "Normal"
    /\ event_form = None
    /\ sync_status = Error("Failed to create", "timeout")

\* C5: whenever a collaborator call fails (create or update on form commit, delete on
\* confirmation, the :w fetch), events after the dispatch step equals events before
\* it and sync_status is Error(...).
C5_FailureKeepsEvents ==
    [][/\ InInsert =>
            \A outcome \in {o \in CreateOutcomes(App) : ~o.ok} :
                App' = handle_insert_mode("Enter", App, outcome) =>
                    events' = events /\ IsError(sync_status', outcome.e)
       /\ InConfirmation =>
            \A code \in {"y", "Y"}, outcome \in {o \in PlainOutcomes : ~o.ok} :
                App' = handle_delete_confirmation(code, App, outcome) =>
                    events' = events /\ IsError(sync_status', outcome.e)
       /\ (InCommand /\ parse_command(command_buffer).kind = "Sync") =>
            \A outcome \in {o \in FetchOutcomes : ~o.ok} :
                App' = handle_command_mode("Enter", App, outcome) =>
                    events' = events /\ IsError(sync_status', outcome.e)]_vars

\* A confirmed delete failed while two events were held: both are still there.
C5_DeleteFailed ==
    /\ sync_status = Error("Failed to delete event", "timeout")
    /\ DOMAIN events = {"e1", "e2"}
    /\ ~IsSome(delete_confirmation_event_id)

\* C6: every dispatch step that calls the sync collaborator (form commit, confirmed
\* delete, :w) applies exactly one outcome, Synced or Error, to the Syncing status it
\* set, before the next key event is accepted: sync_status is never Syncing at the
\* start of a dispatch step.
C6_OneOutcomePerCall ==
    [][/\ sync_status.kind # "Syncing"
       /\ InInsert =>
            \A outcome \in CreateOutcomes(App) :
                App' = handle_insert_mode("Enter", App, outcome) =>
                    IF outcome.ok THEN sync_status' = Synced
                    ELSE IsError(sync_status', outcome.e)
       /\ InConfirmation =>
            \A code \in {"y", "Y"}, outcome \in PlainOutcomes :
                App' = handle_delete_confirmation(code, App, outcome) =>
                    IF outcome.ok THEN sync_status' = Synced
                    ELSE IsError(sync_status', outcome.e)
       /\ (InCommand /\ parse_command(command_buffer).kind = "Sync") =>
            \A outcome \in FetchOutcomes :
                App' = handle_command_mode("Enter", App, outcome) =>
                    IF outcome.ok THEN sync_status' = Synced
                    ELSE IsError(sync_status', outcome.e)]_vars

\* A manual sync failed after events had been fetched: its one outcome is applied.
C6_SyncFailed ==
    /\ mode = "Normal"
    /\ sync_status = Error("Sync failed", "timeout")
    /\ DOMAIN events # {}

\* C7: Escape aborts the active sub-state wholesale: after Esc in Insert mode event_form
\* is absent; after Esc in Visual mode visual_selection_start and
\* delete_confirmation_event_id are absent; after Esc in the detail panel
\* detail_view_event_id, detail_view_scroll, the cursor line and column and
\* detail_view_visual_start are back to their initial values; in each case
\* mode = Normal and events is unchanged.
C7_EscapeAbortsWholesale ==
    [][/\ (InInsert /\ App' = handle_insert_mode("Esc", App, NoCall)) =>
              event_form' = None /\ mode' = "Normal" /\ events' = events
       /\ (InVisual /\ App' = visual_mode_handle_key("Esc", App)) =>
              /\ visual_selection_start' = None
              /\ delete_confirmation_event_id' = None
              /\ mode' = "Normal" /\ events' = events
       /\ (InConfirmation /\ App' = handle_delete_confirmation("Esc", App, NoCall)) =>
              /\ visual_selection_start' = None
              /\ delete_confirmation_event_id' = None
              /\ mode' = "Normal" /\ events' = events
       /\ (InDetail /\ App' = handle_detail_view_keys("Esc", App)) =>
              /\ detail_view_event_id' = AppState_new.detail_view_event_id
              /\ detail_view_scroll' = AppState_new.detail_view_scroll
              /\ detail_view_cursor_line' = AppState_new.detail_view_cursor_line
              /\ detail_view_cursor_col' = AppState_new.detail_view_cursor_col
              /\ detail_view_visual_start' = AppState_new.detail_view_visual_start
              /\ mode' = "Normal" /\ events' = events]_vars

\* The detail panel was closed and the anchor of its text selection is still held.
C7_AnchorOutlivesPanel ==
    /\ mode = "Normal"
    /\ ~IsSome(detail_view_event_id)
    /\ IsSome(detail_view_visual_start)

\* C8: in the delete confirmation, 'n', 'N' or Esc clears delete_confirmation_event_id,
\* returns mode to Normal and leaves events unchanged; 'y' or 'Y' clears the flag,
\* returns mode to Normal and, when the collaborator reports success, removes from
\* events exactly the event whose id was captured when 'x' was pressed.
C8_ConfirmationDeletesCaptured ==
    [][/\ InConfirmation =>
            /\ \A code \in {"n", "N", "Esc"} :
                  App' = handle_delete_confirmation(code, App, NoCall) =>
                      /\ delete_confirmation_event_id' = None
                      /\ mode' = "Normal"
                      /\ events' = events
            /\ \A code \in {"y", "Y"}, outcome \in PlainOutcomes :
                  App' = handle_delete_confirmation(code, App, outcome) =>
                      /\ delete_confirmation_event_id' = None
                      /\ mode' = "Normal"
                      /\ outcome.ok =>
                            /\ DOMAIN events' =
                                  DOMAIN events \ {Unwrap(delete_confirmation_event_id)}
                            /\ \A id \in DOMAIN events' : events'[id] = events[id]
       /\ InNormal =>
            \A order \in get_events_for_date(events, selected_date) :
                (IsSome(get_selected_event(App, order))
                    /\ App' = normal_mode_handle_key("x", App, order)) =>
                    delete_confirmation_event_id' =
                        Some(Unwrap(get_selected_event(App, order)).id)]_vars

\* Of the two fetched events the first was deleted after confirmation: the second stays.
C8_FirstDeleted ==
    /\ mode = "Normal"
    /\ ~IsSome(delete_confirmation_event_id)
    /\ sync_status = Synced
    /\ DOMAIN events = {"e2"}
    /\ events["e2"] = FetchedEvents["e2"]

(***************************************************************************)
(* The command line: the session explored over every colon-command of      *)
(* parse_command, typed in full, and the states it leads to.               *)
(***************************************************************************)
AllCommandTexts ==
    {<<":", "q">>, <<":", "w">>, <<":", "h", "e", "l", "p">>, <<":", "g", "o", "t", "o", " ", "2", "0", "2", "5", "-", "0", "2", "-", "2", "8">>, <<":", "g", "o", "t", "o", " ", "x">>,
     <<":", "n", "e", "w", " ", "t">>, <<":", "c", "a", "l", " ", "w">>, <<":", "t", "h", "e", "m", "e", " ", "n", "o", "r", "d">>,
     <<":", "z", "z">>, <<"q">>}

AllCommandKeys == {"Enter", "Esc", "Backspace", "F1"} \cup Chars(AllCommandTexts)

NextCommand ==
    \/ NormalKey({":"})
    \/ CommandKey(AllCommandKeys, AllCommandTexts)
    \/ InsertKey({"Esc"})
    \/ HelpOverlayKey({"q"})

SpecCommand == Init /\ [][NextCommand]_vars

\* C9: after Enter in Command mode, for every buffer that does not parse to Quit
\* (valid commands and parse errors alike) command_buffer is empty and mode is no
\* longer Command; a buffer that parses to Quit terminates the session instead.
C9_EnterClearsBuffer ==
    [][InCommand =>
          \A outcome \in FetchOutcomes :
              App' = handle_command_mode("Enter", App, outcome) =>
                  IF parse_command(command_buffer).kind = "Quit"
                  THEN ~running'
                  ELSE running' /\ command_buffer' = <<>> /\ mode' # "Command"]_vars

\* ":new t" was entered: the form titled t is open and the buffer is empty.
C9_NewEventEntered ==
    /\ mode = "Insert"
    /\ IsSome(event_form)
    /\ Unwrap(event_form).title = <<"t">>
    /\ command_buffer = <<>>

\* Session State holds message for display: sync_status is the Error carrying it.
HoldsMessage(s, message) ==
    /\ s.sync_status.kind = "Error"
    /\ Len(s.sync_status.msg) = Len(message)
    /\ s.sync_status.msg[1] = message[1]
    /\ Len(message) = 2 => s.sync_status.msg[2] = message[2]

\* C10: a command-parse error (unknown command, missing argument, unparsable :goto
\* date, empty command, input not starting with ':') is recoverable and is surfaced
\* as a displayable message held in session state after the Enter step, and mode
\* returns to Normal.
C10_ParseErrorSurfaced ==
    [][(InCommand /\ parse_command(command_buffer).kind = "Error") =>
          \A outcome \in FetchOutcomes :
              App' = handle_command_mode("Enter", App, outcome) =>
                  /\ running'
                  /\ mode' = "Normal"
                  /\ HoldsMessage(App', parse_command(command_buffer).arg)]_vars

(***************************************************************************)
(* Frame effects of the key dispatch.                                      *)
(***************************************************************************)
\* Keys no arm of the mode's handler matches.
UnboundNormalKeys == {"F1", "Esc", "Tab", "Backspace", "z"}
UnboundVisualKeys == {"F1", "Tab", "Backspace", "x", "v"}
UnboundInsertKeys == {"F1"}
UnboundCommandKeys == {"F1", "Tab"}

\* C11: key dispatch is total and unmatched keys are no-ops: in Normal mode (no
\* overlay, no detail panel), in Visual date-range mode, in Insert mode and in Command
\* mode a key that matches no binding of the mode, and a bound key whose precondition
\* fails ('E', 'x', 'i' with no selected event), leaves every field unchanged.
C11_UnmatchedKeysAreNoOps ==
    /\ InNormal =>
          \A order \in get_events_for_date(events, selected_date) :
              /\ \A key \in UnboundNormalKeys : normal_mode_handle_key(key, App, order) = App
              /\ ~IsSome(get_selected_event(App, order)) =>
                    \A key \in {"E", "x", "i"} : normal_mode_handle_key(key, App, order) = App
    /\ InVisual => \A key \in UnboundVisualKeys : visual_mode_handle_key(key, App) = App
    /\ InInsert => \A key \in UnboundInsertKeys : handle_insert_mode(key, App, NoCall) = App
    /\ InCommand => \A key \in UnboundCommandKeys : handle_command_mode(key, App, NoCall) = App

\* Normal mode on a day without events while events are held on another day: 'E', 'x'
\* and 'i' find no selected event.
C11_NothingSelected ==
    /\ InNormal
    /\ EventsOn(events, selected_date) = {}
    /\ DOMAIN events # {}

\* C12: selected_event_index is reset whenever selected_date changes: every dispatch
\* step after which selected_date differs from its previous value leaves
\* selected_event_index = 0.
C12_DateChangeResetsIndex ==
    [][selected_date' # selected_date => selected_event_index' = 0]_vars

(***************************************************************************)
(* Date-range selection: the session explored over Visual mode on a wider  *)
(* window of dates.                                                        *)
(***************************************************************************)
\* The cursor and the anchor are explored up to VisualSpan days either side of Today.
VisualSpan == 7

\* One iteration of run_app ending with the cursor within dates.
DatedStep(s, dates) ==
    /\ s.selected_date \in dates
    /\ Cardinality(DOMAIN s.events) <= MaxEvents
    /\ Commit(s)

NormalKeyIn(keys, dates) ==
    /\ running /\ mode = "Normal" /\ ~show_help /\ ~IsSome(detail_view_event_id)
    /\ \E code \in keys :
         \E order \in get_events_for_date(events, selected_date) :
            DatedStep(normal_mode_handle_key(code, App, order), dates)

VisualKeyIn(keys, dates) ==
    /\ running /\ mode = "Visual" /\ ~IsSome(delete_confirmation_event_id)
    /\ \E code \in keys : DatedStep(visual_mode_handle_key(code, App), dates)

\* The Normal-mode keys that place the anchor of a range.
RangeKeys == {"v", "h", "l"}

NextVisual ==
    \/ NormalKeyIn(RangeKeys, (Today - VisualSpan) .. (Today + VisualSpan))
    \/ VisualKeyIn(VisualKeys, (Today - VisualSpan) .. (Today + VisualSpan))
    \/ InsertKey({"Esc"})

SpecVisual == Init /\ [][NextVisual]_vars

\* C13: Enter (or 'a') in Visual mode with a date anchor builds an Event Form dated at
\* the earlier of anchor and cursor, clears visual_selection_start and sets mode to
\* Insert; when anchor = selected_date the form is a single-day timed form, otherwise
\* an all-day form with duration_minutes = N*24*60, N the inclusive number of days
\* between the endpoints, whichever way the cursor moved from the anchor.
C13_RangeBuildsForm ==
    (InVisual /\ IsSome(visual_selection_start)) =>
        \A key \in {"Enter", "a"} :
            LET anchor == Unwrap(visual_selection_start)
                after  == visual_mode_handle_key(key, App)
                N      == Max(anchor, selected_date) - Min(anchor, selected_date) + 1
            IN  /\ IsSome(after.event_form)
                /\ Unwrap(after.event_form).date = Min(anchor, selected_date)
                /\ after.visual_selection_start = None
                /\ after.mode = "Insert"
                /\ anchor = selected_date => ~Unwrap(after.event_form).all_day
                /\ anchor # selected_date =>
                      /\ Unwrap(after.event_form).all_day
                      /\ Unwrap(after.event_form).duration_minutes = N * 24 * 60

\* A range was confirmed whose cursor had moved two days back from the anchor: the
\* three-day all-day form starts on the cursor's date.
C13_ThreeDaysBackward ==
    /\ mode = "Insert"
    /\ IsSome(event_form)
    /\ Unwrap(event_form).all_day
    /\ Unwrap(event_form).duration_minutes = 3 * 24 * 60
    /\ Unwrap(event_form).date = selected_date
    /\ ~IsSome(visual_selection_start)

\* C14: for every anchor A and cursor date D get_visual_selection_range returns
\* (min(A,D), max(A,D)), whichever endpoint moved last and in whichever direction;
\* it returns nothing when no anchor is set.
C14_RangeIsOrdered ==
    get_visual_selection_range(App) =
        IF IsSome(visual_selection_start)
        THEN Some(<<Min(Unwrap(visual_selection_start), selected_date),
                    Max(Unwrap(visual_selection_start), selected_date)>>)
        ELSE None

\* Visual mode with the cursor before the anchor.
C14_CursorBeforeAnchor ==
    /\ InVisual
    /\ IsSome(visual_selection_start)
    /\ selected_date < Unwrap(visual_selection_start)

(***************************************************************************)
(* Month grid (ui/month_view.rs).                                          *)
(***************************************************************************)
DayCell_new(date) ==
    [date |-> date, is_selected |-> FALSE, is_today |-> FALSE, has_events |-> FALSE,
     is_current_month |-> TRUE]

\* The while loop over the days of the month: the cell of current_date is pushed and a
\* week is closed on each Sunday.
RECURSIVE MonthDays(_, _, _, _, _)
MonthDays(s, current_date, last_day, weeks, current_week) ==
    IF current_date > last_day
    THEN [weeks |-> weeks, current_week |-> current_week, current_date |-> current_date]
    ELSE LET cell == [DayCell_new(Some(current_date)) EXCEPT
                         !.is_selected = (current_date = s.selected_date),
                         !.is_today = (current_date = Today),
                         !.has_events = (EventsOn(s.events, current_date) # {}),
                         !.is_current_month = TRUE]
             pushed == Append(current_week, cell)
         IN  IF num_days_from_monday(current_date) = 6
             THEN MonthDays(s, current_date + 1, last_day, Append(weeks, pushed), <<>>)
             ELSE MonthDays(s, current_date + 1, last_day, weeks, pushed)

\* calculate_layout counting the leading cells from Sunday.
calculate_layout_sunday_first(s) ==
    LET y == year(s.selected_date)
        m == month(s.selected_date)
        first_day == from_ymd_opt(y, m, 1)
        next_month_first == IF m = 12 THEN from_ymd_opt(y + 1, 1, 1)
                            ELSE from_ymd_opt(y, m + 1, 1)
    IN  IF ~IsSome(first_day) \/ ~IsSome(next_month_first)
        THEN [year |-> y, month |-> m, weeks |-> <<>>]
        ELSE LET first == Unwrap(first_day)
                 last_day == Unwrap(next_month_first) - 1
                 days_before == (num_days_from_monday(first) + 1) % 7
                 leading == [i \in 1 .. days_before |->
                               [DayCell_new(Some((first - 1) - (days_before - (i - 1) - 1)))
                                  EXCEPT !.is_current_month = FALSE]]
                 done == MonthDays(s, first, last_day, <<>>, leading)
                 week == done.current_week
                 padded == IF Len(week) >= 7 THEN week
                           ELSE [i \in 1 .. 7 |->
                                   IF i <= Len(week) THEN week[i]
                                   ELSE [DayCell_new(Some(done.current_date + (i - Len(week) - 1)))
                                           EXCEPT !.is_current_month = FALSE]]
             IN  [year |-> y, month |-> m,
                  weeks |-> IF week # <<>> THEN Append(done.weeks, padded) ELSE done.weeks]

calculate_layout(s) ==
    LET y == year(s.selected_date)
        m == month(s.selected_date)
        first_day == from_ymd_opt(y, m, 1)
        next_month_first == IF m = 12 THEN from_ymd_opt(y + 1, 1, 1)
                            ELSE from_ymd_opt(y, m + 1, 1)
    IN  IF ~IsSome(first_day) \/ ~IsSome(next_month_first)
        THEN [year |-> y, month |-> m, weeks |-> <<>>]
        ELSE LET first == Unwrap(first_day)
                 last_day == Unwrap(next_month_first) - 1
                 days_before == num_days_from_monday(first)
                 leading == [i \in 1 .. days_before |->
                               [DayCell_new(Some((first - 1) - (days_before - (i - 1) - 1)))
                                  EXCEPT !.is_current_month = FALSE]]
                 done == MonthDays(s, first, last_day, <<>>, leading)
                 week == done.current_week
                 padded == IF Len(week) >= 7 THEN week
                           ELSE [i \in 1 .. 7 |->
                                   IF i <= Len(week) THEN week[i]
                                   ELSE [DayCell_new(Some(done.current_date + (i - Len(week) - 1)))
                                           EXCEPT !.is_current_month = FALSE]]
             IN  [year |-> y, month |-> m,
                  weeks |-> IF week # <<>> THEN Append(done.weeks, padded) ELSE done.weeks]

(***************************************************************************)
(* Calendar navigation: the session explored over Normal-mode motions on   *)
(* whole years of dates.                                                   *)
(***************************************************************************)
\* The cursor is explored from 1 January, NavYears years before this year, to
\* 31 December of this year.
NavYears == 1

\* The Normal-mode motions over the calendar, and the switch to the Month view.
MotionKeys == {"h", "l", "j", "k", "g", "G", "{", "}", "t", "m"}

NextMonth ==
    NormalKeyIn(MotionKeys,
                Unwrap(from_ymd_opt(year(Today) - NavYears, 1, 1))
                    .. Unwrap(from_ymd_opt(year(Today), 12, 31)))

SpecMonth == Init /\ [][NextMonth]_vars

\* C15: for every selected_date D, '}' and '{' yield the date in the following /
\* preceding calendar month whose day of month is min(day(D), days of the target
\* month), the year incremented after December and decremented before January; the
\* step never fails and never produces an invalid date.
C15_MonthMovesClamp ==
    InNormal =>
        \A order \in get_events_for_date(events, selected_date) :
            LET y == year(selected_date)
                m == month(selected_date)
                d == day(selected_date)
                next == normal_mode_handle_key("}", App, order).selected_date
                prev == normal_mode_handle_key("{", App, order).selected_date
                ny == IF m = 12 THEN y + 1 ELSE y
                nm == IF m = 12 THEN 1 ELSE m + 1
                py == IF m = 1 THEN y - 1 ELSE y
                pm == IF m = 1 THEN 12 ELSE m - 1
            IN  /\ Civil(next) = [year |-> ny, month |-> nm, day |-> Min(d, DaysInMonth(ny, nm))]
                /\ Civil(prev) = [year |-> py, month |-> pm, day |-> Min(d, DaysInMonth(py, pm))]
                /\ from_ymd_opt(year(next), month(next), day(next)) = Some(next)
                /\ from_ymd_opt(year(prev), month(prev), day(prev)) = Some(prev)

\* The cursor stands on 31 January of a leap year: the next month is shorter.
C15_January31LeapYear ==
    /\ InNormal
    /\ Civil(selected_date) = [year |-> 2024, month |-> 1, day |-> 31]
    /\ Civil(move_next_month(App).selected_date) = [year |-> 2024, month |-> 2, day |-> 29]

\* C16 (as the code has it): from selected_date = 2025-01-15, pressing '{' once yields
\* selected_date = 2024-12-15: the month wraps from January to December and the year
\* is decremented.
C16_PreviousMonthFromJanuary ==
    (InNormal /\ selected_date = Unwrap(from_ymd_opt(2025, 1, 15))) =>
        \A order \in get_events_for_date(events, selected_date) :
            normal_mode_handle_key("{", App, order).selected_date
                = Unwrap(from_ymd_opt(2024, 12, 15))

\* C16 (as the spec has it): from selected_date = 2025-01-15, pressing '{' once yields
\* selected_date = 2025-12-15.
C16_PreviousMonthKeepsYear ==
    (InNormal /\ selected_date = Unwrap(from_ymd_opt(2025, 1, 15))) =>
        \A order \in get_events_for_date(events, selected_date) :
            normal_mode_handle_key("{", App, order).selected_date
                = Unwrap(from_ymd_opt(2025, 12, 15))

\* The cursor stands on 2025-01-15 in Normal mode, where '{' leads to another year.
C16_OnJanuary15 ==
    /\ InNormal
    /\ selected_date = Unwrap(from_ymd_opt(2025, 1, 15))
    /\ year(move_previous_month(App).selected_date) # year(selected_date)

\* C17: for every selected_date the Month grid has every week of exactly 7 cells,
\* hence weeks.len()*7 cells in total, and the selected date appears in exactly one
\* cell, which is the only cell flagged is_selected.
C17_GridShape ==
    LET layout == calculate_layout(App)
        weeks == layout.weeks
        positions == { <<w, i>> \in (DOMAIN weeks) \X (1 .. 7) : i <= Len(weeks[w]) }
    IN  /\ weeks # <<>>
        /\ \A w \in DOMAIN weeks : Len(weeks[w]) = 7
        /\ Cardinality(positions) = Len(weeks) * 7
        /\ Cardinality({ p \in positions :
                           weeks[p[1]][p[2]].date = Some(selected_date) }) = 1
        /\ \A p \in positions :
              weeks[p[1]][p[2]].is_selected <=> weeks[p[1]][p[2]].date = Some(selected_date)

\* The cursor stands on the first day of a month that starts on a Monday: the grid has
\* no leading cell and five weeks.
C17_MonthStartsMonday ==
    /\ day(selected_date) = 1
    /\ num_days_from_monday(selected_date) = 0
    /\ Len(calculate_layout(App).weeks) = 5

\* C18: every cell of the Month grid, the leading and trailing adjacent-month cells
\* included, carries has_events = (an event starts on the cell's date), is_today =
\* (the cell's date is today) and is_selected = (the cell's date is selected_date),
\* while is_current_month is false exactly for the adjacent-month cells.
C18_EveryCellFlagged ==
    LET layout == calculate_layout(App)
    IN  \A w \in DOMAIN layout.weeks : \A i \in DOMAIN layout.weeks[w] :
            LET cell == layout.weeks[w][i]
                date == Unwrap(cell.date)
            IN  /\ cell.has_events = (EventsOn(events, date) # {})
                /\ cell.is_today = (date = Today)
                /\ cell.is_selected = (date = selected_date)
                /\ cell.is_current_month =
                      (month(date) = month(selected_date) /\ year(date) = year(selected_date))

\* March 2025 is selected: its first week shows 24 to 28 February, today among them.
C18_TodayInLeadingCells ==
    /\ Civil(selected_date) = [year |-> 2025, month |-> 3, day |-> 27]
    /\ calculate_layout(App).weeks[1][4].date = Some(Today)
    /\ ~calculate_layout(App).weeks[1][4].is_today

\* C19: Tab advances active_field in the cyclic order Title, StartTime, Duration,
\* Location, Description, Title for a timed form and Title, Duration, Location,
\* Description, Title for an all-day form, and Shift-Tab is its exact inverse on the
\* fields of the cycle: Tab then Shift-Tab, or Shift-Tab then Tab, restores
\* active_field.
C19_FieldCycle ==
    (InInsert /\ IsSome(event_form)) =>
        LET form  == Unwrap(event_form)
            cycle == IF form.all_day
                     THEN <<"Title", "Duration", "Location", "Description">>
                     ELSE <<"Title", "StartTime", "Duration", "Location", "Description">>
            tab     == insert_mode_handle_key("Tab", App)
            backtab == insert_mode_handle_key("BackTab", App)
            field(s) == Unwrap(s.event_form).active_field
        IN  \A i \in DOMAIN cycle :
                form.active_field = cycle[i] =>
                    /\ field(tab) = cycle[(i % Len(cycle)) + 1]
                    /\ field(backtab) = cycle[((i + Len(cycle) - 2) % Len(cycle)) + 1]
                    /\ field(insert_mode_handle_key("BackTab", tab)) = form.active_field
                    /\ field(insert_mode_handle_key("Tab", backtab)) = form.active_field

\* An all-day form whose active field is Duration, the field that follows Title when
\* StartTime is left out.
C19_AllDayOnDuration ==
    /\ InInsert
    /\ IsSome(event_form)
    /\ Unwrap(event_form).all_day
    /\ Unwrap(event_form).active_field = "Duration"

(***************************************************************************)
(* Time entry: the session explored from a new-event form whose StartTime  *)
(* field has been typed into.                                              *)
(***************************************************************************)
\* Up to MaxTyped keys are typed into the StartTime field.
MaxTyped == 5
TimeBuffers ==
    UNION { [1 .. n -> {"0", "1", "3", "4", "9", ":"}] : n \in 0 .. MaxTyped }

\* The Insert-mode arm of run_app fed the keys of typed one after the other.
RECURSIVE TypeKeys(_, _)
TypeKeys(s, typed) ==
    IF typed = <<>> THEN s
    ELSE handle_insert_mode(typed[Len(typed)], TypeKeys(s, Pop(typed)), NoCall)

\* The session after 'a', Tab and the keys of typed.
InitTime ==
    \E outcome \in FetchOutcomes : \E typed \in TimeBuffers :
        \E order \in get_events_for_date(run_tui(outcome).events, Today) :
            Starts(TypeKeys(normal_mode_handle_key("a", run_tui(outcome), order),
                            <<"Tab">> \o typed))

NextTime == InsertKey(InsertKeys)

SpecTime == InitTime /\ [][NextTime]_vars

\* C20: when the time buffer is parsed (Tab or Shift-Tab leaving StartTime, or Enter),
\* a ':'-stripped content of 3 or 4 digits is read as HMM/HHMM (hour = value/100,
\* minute = value%100) and clamped to hour <= 23 and minute <= 59, a content of 1 or 2
\* digits is read as the hour (clamped to 23) with minute 0, and the buffer is
\* rewritten in canonical HH:MM form, so that "1430" yields hour 14, minute 30 and
\* buffer "14:30".
C20_TimeParsed ==
    (InInsert /\ IsSome(event_form) /\ ~Unwrap(event_form).all_day) =>
        LET form   == Unwrap(event_form)
            input  == StripColons(form.time_input_buffer)
            digits == \A i \in DOMAIN input : is_ascii_digit(input[i])
            value  == DigitsValue(input)
            h      == IF Len(input) >= 3 THEN Min(value \div 100, 23) ELSE Min(value, 23)
            m      == IF Len(input) >= 3 THEN Min(value % 100, 59) ELSE 0
            hhmm   == <<DigitChar(h \div 10), DigitChar(h % 10), ":",
                        DigitChar(m \div 10), DigitChar(m % 10)>>
        IN  (digits /\ Len(input) \in 1 .. 4) =>
                /\ form.active_field = "StartTime" =>
                      \A key \in {"Tab", "BackTab"} :
                          LET after == Unwrap(handle_insert_mode(key, App, NoCall).event_form)
                          IN  /\ after.start_hour = h
                              /\ after.start_minute = m
                              /\ after.time_input_buffer = hhmm
                              /\ form.time_input_buffer = <<"1", "4", "3", "0">> =>
                                    /\ after.start_hour = 14
                                    /\ after.start_minute = 30
                                    /\ after.time_input_buffer = <<"1", "4", ":", "3", "0">>
                /\ \A outcome \in { o \in CreateOutcomes(App) : o.ok } :
                      LET after == handle_insert_mode("Enter", App, outcome)
                      IN  /\ outcome.id \in DOMAIN after.events
                          /\ hour(after.events[outcome.id].start) = h
                          /\ minute(after.events[outcome.id].start) = m

\* Tab has left StartTime with a buffer that reads 14:30: the form holds hour 14,
\* minute 30 and the canonical buffer.
C20_HalfPastTwo ==
    /\ InInsert
    /\ IsSome(event_form)
    /\ Unwrap(event_form).active_field = "Duration"
    /\ Unwrap(event_form).start_hour = 14
    /\ Unwrap(event_form).start_minute = 30
    /\ Unwrap(event_form).time_input_buffer = <<"1", "4", ":", "3", "0">>

(***************************************************************************)
(* Form entry: the session explored from an Event Form of each kind whose  *)
(* StartTime or Duration field has been typed into.                        *)
(***************************************************************************)
\* The keys typed into the field: up to MaxTyped of these.
FormBuffers ==
    UNION { [1 .. n -> {"0", "9", ":", "Backspace"}] : n \in 0 .. MaxTyped }

\* The forms a session s can open: a blank form ('a'), a two-day form (l, v, h, Enter)
\* and the form of the selected event ('E').
OpenedForms(s) ==
    { normal_mode_handle_key(key, s, order) :
        key \in {"a", "E"}, order \in get_events_for_date(s.events, s.selected_date) }
    \cup
    { visual_mode_handle_key("Enter",
          visual_mode_handle_key("h",
              normal_mode_handle_key("v", normal_mode_handle_key("l", s, order), <<>>))) :
        order \in get_events_for_date(s.events, s.selected_date) }

\* The session after a form is opened, Tab has reached StartTime or Duration, and the
\* keys of typed.
InitForm ==
    \E outcome \in FetchOutcomes : \E opened \in OpenedForms(run_tui(outcome)) :
        \E tabs \in {<<"Tab">>, <<"Tab", "Tab">>} : \E typed \in FormBuffers :
            /\ opened.mode = "Insert"
            /\ Unwrap(TypeKeys(opened, tabs).event_form).active_field
                  \in {"StartTime", "Duration"}
            /\ Starts(TypeKeys(opened, tabs \o typed))

NextForm ==
    \/ InsertKey(InsertKeys)
    \/ NormalKey({"E"})

SpecForm == InitForm /\ [][NextForm]_vars

\* C21: when the duration buffer holds an integer and is parsed, duration_minutes
\* becomes the value clamped to [1, 10080] for a timed form and (the value clamped to
\* [1, 365]) * 1440 for an all-day form; "99999" gives 10080 minutes for a timed form
\* and 365 days for an all-day form, and "0" gives the minimum 1.
C21_DurationClamped ==
    (InInsert /\ IsSome(event_form)) =>
        LET form   == Unwrap(event_form)
            buffer == form.duration_input_buffer
            value  == DigitsValue(buffer)
            days   == IF value < 1 THEN 1 ELSE IF value > 365 THEN 365 ELSE value
            mins   == IF value < 1 THEN 1 ELSE IF value > 10080 THEN 10080 ELSE value
            expect == IF form.all_day THEN days * 1440 ELSE mins
        IN  (buffer # <<>> /\ \A i \in DOMAIN buffer : is_ascii_digit(buffer[i])) =>
                /\ form.active_field = "Duration" =>
                      \A key \in {"Tab", "BackTab"} :
                          Unwrap(handle_insert_mode(key, App, NoCall).event_form).duration_minutes
                              = expect
                /\ \A outcome \in { o \in (IF IsSome(form.event_id) THEN PlainOutcomes
                                            ELSE CreateOutcomes(App)) : o.ok } :
                      LET after == handle_insert_mode("Enter", App, outcome)
                          id    == IF IsSome(form.event_id) THEN Unwrap(form.event_id)
                                   ELSE outcome.id
                      IN  /\ id \in DOMAIN after.events
                          /\ duration_minutes(after.events[id]) = expect
                /\ buffer = <<"9", "9", "9", "9", "9">> =>
                      expect = IF form.all_day THEN 365 * 1440 ELSE 10080
                /\ buffer = <<"0">> => expect = IF form.all_day THEN 1440 ELSE 1

\* Tab has left Duration of a timed form whose buffer reads 99999: the form holds
\* 10080 minutes.
C21_ClampedToAWeek ==
    /\ InInsert
    /\ IsSome(event_form)
    /\ ~Unwrap(event_form).all_day
    /\ Unwrap(event_form).active_field = "Location"
    /\ Unwrap(event_form).duration_input_buffer = <<"9", "9", "9", "9", "9">>
    /\ Unwrap(event_form).duration_minutes = 10080

\* C22: a buffer-parse failure is silently ignored and keeps the last valid value: if
\* the ':'-stripped time buffer is empty, not a number, or longer than 4 digits, or the
\* duration buffer is empty, then the parse triggered by Tab, Shift-Tab or Enter leaves
\* start_hour, start_minute, duration_minutes and the buffer text unchanged and records
\* no error in session state.
C22_ParseFailureIgnored ==
    (InInsert /\ IsSome(event_form)) =>
        LET form      == Unwrap(event_form)
            input     == StripColons(form.time_input_buffer)
            time_bad  == \/ input = <<>>
                         \/ \E i \in DOMAIN input : ~is_ascii_digit(input[i])
                         \/ Len(input) > 4
            dur_bad   == form.duration_input_buffer = <<>>
            kept(f)   == /\ f.start_hour = form.start_hour
                         /\ f.start_minute = form.start_minute
                         /\ f.duration_minutes = form.duration_minutes
                         /\ f.time_input_buffer = form.time_input_buffer
                         /\ f.duration_input_buffer = form.duration_input_buffer
        IN  /\ ((form.active_field = "StartTime" /\ time_bad)
                  \/ (form.active_field = "Duration" /\ dur_bad)) =>
                  \A key \in {"Tab", "BackTab"} :
                      LET after == handle_insert_mode(key, App, NoCall)
                      IN  /\ kept(Unwrap(after.event_form))
                          /\ after.sync_status = sync_status
                          /\ after.mode = "Insert"
            /\ \A outcome \in { o \in (IF IsSome(form.event_id) THEN PlainOutcomes
                                        ELSE CreateOutcomes(App)) : o.ok } :
                  LET after == handle_insert_mode("Enter", App, outcome)
                      id    == IF IsSome(form.event_id) THEN Unwrap(form.event_id)
                               ELSE outcome.id
                  IN  /\ (time_bad \/ dur_bad) =>
                            /\ after.running
                            /\ after.sync_status = Synced
                            /\ id \in DOMAIN after.events
                      /\ (time_bad /\ ~form.all_day) =>
                            /\ hour(after.events[id].start) = form.start_hour
                            /\ minute(after.events[id].start) = form.start_minute
                      /\ dur_bad =>
                            duration_minutes(after.events[id]) =
                                IF form.all_day
                                THEN (form.duration_minutes \div 1440) * 1440
                                ELSE form.duration_minutes

\* Tab has left Duration with an emptied buffer: the duration is the one the form had.
C22_EmptyDurationKept ==
    /\ InInsert
    /\ IsSome(event_form)
    /\ Unwrap(event_form).active_field = "Location"
    /\ Unwrap(event_form).duration_buffer_touched
    /\ Unwrap(event_form).duration_input_buffer = <<>>
    /\ Unwrap(event_form).duration_minutes = 60

\* C23: in every reachable state of an Event Form (blank form, multi-day form, or form
\* opened for an existing event, after any key sequence), time_input_buffer consists
\* only of digits and ':' and duration_input_buffer only of digits, and neither buffer
\* is longer than 5 characters.
C23_BuffersWellFormed ==
    IsSome(event_form) =>
        LET form == Unwrap(event_form)
        IN  /\ \A i \in DOMAIN form.time_input_buffer :
                  is_ascii_digit(form.time_input_buffer[i]) \/ form.time_input_buffer[i] = ":"
            /\ \A i \in DOMAIN form.duration_input_buffer :
                  is_ascii_digit(form.duration_input_buffer[i])
            /\ Len(form.time_input_buffer) <= 5
            /\ Len(form.duration_input_buffer) <= 5

\* The form opened for an all-day event of ninety days shows its duration in minutes.
C23_SixDigitDuration ==
    /\ InInsert
    /\ IsSome(event_form)
    /\ IsSome(Unwrap(event_form).event_id)
    /\ ~Unwrap(event_form).duration_buffer_touched
    /\ Unwrap(event_form).duration_input_buffer = <<"1", "2", "9", "6", "0", "0">>

\* C24: replace-on-first-keystroke: in a timed Event Form whose active field is
\* Duration and whose duration buffer is still untouched, typing '9' then '0' leaves
\* duration_input_buffer = "90" (the first digit replaces the default, the second
\* appends), and a following Tab sets duration_minutes = 90 and active_field = Location.
C24_FirstKeystrokeReplaces ==
    (/\ InInsert /\ IsSome(event_form)
     /\ ~Unwrap(event_form).all_day
     /\ Unwrap(event_form).active_field = "Duration"
     /\ ~Unwrap(event_form).duration_buffer_touched) =>
        LET nine   == handle_insert_mode("9", App, NoCall)
            ninety == handle_insert_mode("0", nine, NoCall)
            tabbed == handle_insert_mode("Tab", ninety, NoCall)
        IN  /\ Unwrap(nine.event_form).duration_input_buffer = <<"9">>
            /\ Unwrap(ninety.event_form).duration_input_buffer = <<"9", "0">>
            /\ Unwrap(ninety.event_form).active_field = "Duration"
            /\ Unwrap(tabbed.event_form).duration_minutes = 90
            /\ Unwrap(tabbed.event_form).active_field = "Location"
            /\ Unwrap(tabbed.event_form).duration_input_buffer = <<"9", "0">>

\* '9', '0' and Tab have been pressed on the Duration field of a blank form.
C24_NinetyMinutes ==
    /\ InInsert
    /\ IsSome(event_form)
    /\ ~Unwrap(event_form).all_day
    /\ ~IsSome(Unwrap(event_form).event_id)
    /\ Unwrap(event_form).active_field = "Location"
    /\ Unwrap(event_form).duration_input_buffer = <<"9", "0">>
    /\ Unwrap(event_form).duration_minutes = 90

(***************************************************************************)
(* The detail panel: the cursor, the anchor and the word motions over the  *)
(* lines of a fetched event.                                               *)
(***************************************************************************)
\* The cursor line is explored up to this line (and the 999 of G), one past the
\* last line of the longest panel.
MaxPanelLine == 14
\* The cursor column is explored up to this column, one past the longest line.
MaxPanelCol == 70
\* The anchor of a selection is set on lines and columns up to this one.
MaxAnchor == 2

\* What the initial fetch returns here: one event as GoogleCalendarClient converts it,
\* either with a summary, a description and an empty location, or without a summary
\* (title: ge.summary.unwrap_or_default()).
PanelFetchResults ==
    LET PanelEventWithText ==
            Event("e1", <<"a", "l", "p", "h", "a", " ", "b", "e", "t", "a">>,
                  Some(<<"g", "a", "m", "m", "a", " ", "d", "e", "l", "t", "a">>), Some(<<>>),
                  Today * MinutesPerDay + 9 * 60, Today * MinutesPerDay + 10 * 60 + 30, FALSE, None)
        PanelEventUntitled ==
            Event("e1", <<>>, None, None,
                  Today * MinutesPerDay + 14 * 60, Today * MinutesPerDay + 14 * 60 + 30, FALSE, None)
    IN  {[id \in {"e1"} |-> PanelEventWithText], [id \in {"e1"} |-> PanelEventUntitled]}

PanelOpenKeys == {"i"}
PanelKeys == {"Esc", "j", "k", "h", "l", "0", "$", "^", "w", "b", "e", "g", "G", "y", "v"}

\* One iteration of run_app in the panel, the cursor and the anchor within bounds.
PanelStep(s) ==
    /\ s.detail_view_cursor_line \in (0 .. MaxPanelLine) \cup {999}
    /\ s.detail_view_cursor_col <= MaxPanelCol
    /\ IsSome(s.detail_view_visual_start) =>
          /\ Unwrap(s.detail_view_visual_start)[1] <= MaxAnchor
          /\ Unwrap(s.detail_view_visual_start)[2] <= MaxAnchor
    /\ Commit(s)

PanelKey(keys) ==
    /\ running /\ mode = "Normal" /\ ~show_help /\ IsSome(detail_view_event_id)
    /\ \E code \in keys : PanelStep(handle_detail_view_keys(code, App))

InitPanel == \E fetched \in PanelFetchResults : Starts(run_tui(Outcome(TRUE, fetched, "e1")))

NextPanel ==
    \/ NormalKey(PanelOpenKeys)
    \/ PanelKey(PanelKeys)

SpecPanel == InitPanel /\ [][NextPanel]_vars

\* The cursor of the panel and the lines it moves over.
PanelCursor == <<detail_view_cursor_line, detail_view_cursor_col>>
PanelLines == detail_view_line_text(App)

\* Reading order of (line, column) positions.
Before(p, q) == p[1] < q[1] \/ (p[1] = q[1] /\ p[2] < q[2])

\* C25: wherever the panel's cursor is, next-word motion returns the cursor's own
\* position only from the final character of the document, and from every other
\* position a position strictly later in reading order.
C25_NextWordAdvances ==
    (InDetail /\ Len(PanelLines) > 0) =>
        LET next == next_word_position(PanelLines, detail_view_cursor_line,
                                       detail_view_cursor_col)
            final == <<Len(PanelLines) - 1, last_char_index(PanelLines[Len(PanelLines)])>>
        IN  IF PanelCursor = final THEN next = PanelCursor ELSE Before(PanelCursor, next)

\* The cursor is on the last line of the panel, past its final character.
C25_PastTheLastLineEnd ==
    /\ InDetail /\ Len(PanelLines) > 0
    /\ detail_view_cursor_line = Len(PanelLines) - 1
    /\ detail_view_cursor_col >= Len(PanelLines[Len(PanelLines)])

\* The columns of a line on which a run of one class (word characters, or other
\* characters that are not whitespace) begins.
WordStarts(text) ==
    {p \in 0 .. Len(text) - 1 :
        /\ ~is_whitespace(text[p + 1])
        /\ (p = 0 \/ is_whitespace(text[p])
                  \/ is_word_char(text[p]) # is_word_char(text[p + 1]))}

\* C26: with the cursor on a line of the panel that has no word start after the
\* cursor's column, next-word motion lands on the first character that is not
\* whitespace of the nearest following line that has one, and on the final character
\* of the last line when no following line has one; on the lines "alpha beta",
\* "gamma delta" it moves from (0, 9) to (1, 0).
C26_NextWordCrossesLines ==
    /\ next_word_position(<<<<"a", "l", "p", "h", "a", " ", "b", "e", "t", "a">>,
                            <<"g", "a", "m", "m", "a", " ", "d", "e", "l", "t", "a">>>>,
                          0, 9) = <<1, 0>>
    /\ (/\ InDetail
        /\ detail_view_cursor_line < Len(PanelLines)
        /\ \A p \in WordStarts(PanelLines[detail_view_cursor_line + 1]) :
              p <= detail_view_cursor_col)
       => LET lines == PanelLines
              following == {j \in detail_view_cursor_line + 1 .. Len(lines) - 1 :
                               \E i \in 1 .. Len(lines[j + 1]) :
                                   ~is_whitespace(lines[j + 1][i])}
              nearest == CHOOSE j \in following : \A k \in following : j <= k
              column == CHOOSE c \in 0 .. Len(lines[nearest + 1]) - 1 :
                           /\ ~is_whitespace(lines[nearest + 1][c + 1])
                           /\ \A i \in 1 .. c : is_whitespace(lines[nearest + 1][i])
          IN  next_word_position(lines, detail_view_cursor_line, detail_view_cursor_col)
                 = IF following # {} THEN <<nearest, column>>
                   ELSE <<Len(lines) - 1, last_char_index(lines[Len(lines)])>>

\* The cursor is past the end of the last line of the panel, which has no word start
\* after it and no line after it.
C26_NothingAfterTheCursor ==
    /\ InDetail
    /\ detail_view_cursor_line = Len(PanelLines) - 1
    /\ detail_view_cursor_col > last_char_index(PanelLines[Len(PanelLines)])

\* C29: previous-word motion returns the start of the nearest run of one class that
\* begins strictly before the cursor in reading order, whatever whitespace, empty
\* lines and line boundaries lie between, and (0, 0) when no run begins before the
\* cursor; the result is never later than the cursor.  The cursor is where the panel
\* shows it: on the last line when its line is past the last line.  On the lines
\* "alpha beta", "gamma delta" the motion goes from (1, 0) to (0, 6).
C29_PrevWordFindsNearestRun ==
    /\ prev_word_position(<<<<"a", "l", "p", "h", "a", " ", "b", "e", "t", "a">>,
                            <<"g", "a", "m", "m", "a", " ", "d", "e", "l", "t", "a">>>>,
                          1, 0) = <<0, 6>>
    /\ (InDetail /\ Len(PanelLines) > 0)
       => LET lines == PanelLines
              cursor == <<Min(detail_view_cursor_line, Len(lines) - 1),
                          detail_view_cursor_col>>
              earlier == {q \in UNION {{<<l, p>> : p \in WordStarts(lines[l + 1])} :
                                          l \in 0 .. cursor[1]} : Before(q, cursor)}
              nearest == CHOOSE q \in earlier : \A r \in earlier : r = q \/ Before(r, q)
              prev == prev_word_position(lines, detail_view_cursor_line,
                                         detail_view_cursor_col)
          IN  /\ prev = IF earlier = {} THEN <<0, 0>> ELSE nearest
              /\ ~Before(cursor, prev)

\* The cursor is at the start of the date line, below an empty line: the nearest run
\* before it is the last word of the title.
C29_BackAcrossAnEmptyLine ==
    /\ InDetail
    /\ PanelCursor = <<2, 0>>
    /\ Len(PanelLines[2]) = 0
    /\ prev_word_position(PanelLines, 2, 0) = <<0, 6>>

\* The characters of the lines from line l to line last that lie between the positions
\* from and to, both included, with a line break after every line before line to[1].
RECURSIVE RangeText(_, _, _, _, _)
RangeText(lines, l, last, from, to) ==
    IF l > last THEN <<>>
    ELSE LET chars == lines[l + 1]
             inside == {c \in 0 .. Len(chars) - 1 :
                           ~Before(<<l, c>>, from) /\ ~Before(to, <<l, c>>)}
             first == CHOOSE c \in inside : \A d \in inside : c <= d
             kept == [i \in 1 .. Cardinality(inside) |-> chars[first + i]]
         IN  kept \o (IF l < to[1] THEN <<"\n">> ELSE <<>>)
                  \o RangeText(lines, l + 1, last, from, to)

MaxPanelHeight == 7
PanelHeights == 3 .. MaxPanelHeight

\* panel_height.saturating_sub(2): the rows between the borders.
visible_lines_count(panel_height) == IF panel_height > 2 THEN panel_height - 2 ELSE 0

\* The cursor line render draws the cursor on.
render_cursor_line(s) ==
    LET total_lines == Len(detail_view_line_text(s))
    IN  Min(s.detail_view_cursor_line, IF total_lines > 0 THEN total_lines - 1 ELSE 0)

\* The first line render draws in a panel of panel_height rows.
scroll_start(s, panel_height) ==
    LET visible == visible_lines_count(panel_height)
        total_lines == Len(detail_view_line_text(s))
        cursor_line == render_cursor_line(s)
        start == IF visible = 0 THEN 0
                 ELSE IF cursor_line >= s.detail_view_scroll + visible
                 THEN (IF cursor_line > visible - 1 THEN cursor_line - (visible - 1) ELSE 0)
                 ELSE IF cursor_line < s.detail_view_scroll THEN cursor_line
                 ELSE s.detail_view_scroll
    IN  Min(start, IF total_lines > visible THEN total_lines - visible ELSE 0)

\* C28: from one key event of the panel to the next, at every panel height, the first
\* visible line stays where it was while the cursor is inside the window drawn
\* before, becomes the line that makes the cursor the last visible row when the
\* cursor went below that window, and becomes the cursor's line when it went above;
\* the cursor is inside the window drawn, and the first visible line is never past
\* total_lines minus the window height.
C28_WindowFollowsCursor ==
    [][(InDetail /\ InDetail') =>
          \A panel_height \in PanelHeights :
             LET visible == visible_lines_count(panel_height)
                 before == scroll_start(App, panel_height)
                 after == scroll_start(App', panel_height)
                 cursor == render_cursor_line(App')
                 total_lines == Len(detail_view_line_text(App'))
             IN  /\ after = IF cursor >= before + visible THEN cursor - (visible - 1)
                            ELSE IF cursor < before THEN cursor
                            ELSE before
                 /\ cursor \in after .. after + visible - 1
                 /\ total_lines >= visible => after <= total_lines - visible]_vars

\* The window of a five-row panel has moved down: its first visible line is line 4.
C28_WindowScrolled ==
    /\ InDetail
    /\ scroll_start(App, 5) = 4

(***************************************************************************)
(* The calendar of the session.                                            *)
(***************************************************************************)
\* sync_engine.config.calendars.default, the calendar every fetch and every create of
\* the session is sent to ("primary" unless configured otherwise).  It is read from
\* the configuration before run_app starts and no handler assigns it, so it is the
\* same in every state s.
active_calendar(s) == <<"p", "r", "i", "m", "a", "r", "y">>

\* C30: Enter on ':cal <name>' or ':calendar <name>' makes <name> the active calendar
\* of the session; Enter on ':cal' or ':calendar' without a name is the error
\* "cal requires a calendar name" and leaves the active calendar as it was.
C30_CalSwitchesCalendar ==
    InCommand =>
        LET cmd == parse_command(command_buffer)
            after == handle_command_mode("Enter", App, NoCall)
        IN  /\ cmd.kind = "SwitchCalendar" => active_calendar(after) = Unwrap(cmd.arg)
            /\ cmd = Command("Error", <<"cal requires a calendar name">>) =>
                   active_calendar(after) = active_calendar(App)

\* ':cal w' is typed and Enter is about to be pressed.
C30_CalTyped ==
    /\ InCommand
    /\ command_buffer = <<":", "c", "a", "l", " ", "w">>
    /\ parse_command(command_buffer) = Command("SwitchCalendar", <<<<"w">>>>)

\* C31: with the detail panel open, 'q' and Esc both close it: after either key
\* detail_view_event_id is absent and the session is still running in Normal mode.
C31_QuitKeyClosesPanel ==
    InDetail =>
        \A code \in {"q", "Esc"} :
            LET after == handle_detail_view_keys(code, App)
            IN  /\ after.detail_view_event_id = None
                /\ after.running
                /\ after.mode = "Normal"

\* The panel is open on an event, the cursor moved off its first line.
C31_PanelOpen ==
    /\ InDetail
    /\ detail_view_cursor_line = 1
    /\ handle_detail_view_keys("Esc", App).detail_view_event_id = None

\* C32: while delete_confirmation_event_id is set every key goes to the confirmation:
\* a key other than y, Y, n, N and Esc (h, j, k, l, 'a' and Enter among them) leaves
\* the whole session state as it is, so selected_date does not move and no Event Form
\* is created; and a step that changes the state leaves the confirmation, to Normal
\* mode, with selected_date kept and no Event Form.
C32_ConfirmationGatesKeys ==
    [][(running /\ IsSome(delete_confirmation_event_id)) =>
          /\ mode = "Visual"
          /\ \A code \in ConfirmKeys \ {"y", "Y", "n", "N", "Esc"} :
                handle_delete_confirmation(code, App, NoCall) = App
          /\ delete_confirmation_event_id' = None
          /\ mode' = "Normal"
          /\ selected_date' = selected_date
          /\ event_form' = None]_vars

\* The confirmation is shown for an event of today that is still held.
C32_ConfirmationShown ==
    /\ InConfirmation
    /\ selected_date = Today
    /\ Unwrap(delete_confirmation_event_id) \in DOMAIN events
    /\ handle_delete_confirmation("h", App, NoCall) = App

\* C33: with the cursor on a line of the panel that has no character other than
\* whitespace after the cursor's column, and a next line that has one, word-end motion
\* returns the last column of the first run of one class of that next line, a first
\* run of a single character at column 0 included; on the lines "alpha beta",
\* "gamma delta" it moves from (0, 9) to (1, 4).
C33_WordEndWrapsToFirstRun ==
    /\ word_end_position(<<<<"a", "l", "p", "h", "a", " ", "b", "e", "t", "a">>,
                           <<"g", "a", "m", "m", "a", " ", "d", "e", "l", "t", "a">>>>,
                         0, 9) = <<1, 4>>
    /\ (/\ InDetail
        /\ detail_view_cursor_line + 1 < Len(PanelLines)
        /\ \A i \in detail_view_cursor_col + 2 .. Len(PanelLines[detail_view_cursor_line + 1]) :
              is_whitespace(PanelLines[detail_view_cursor_line + 1][i])
        /\ WordStarts(PanelLines[detail_view_cursor_line + 2]) # {})
       => LET next_line == PanelLines[detail_view_cursor_line + 2]
              starts == WordStarts(next_line)
              first == CHOOSE p \in starts : \A q \in starts : p <= q
              later == {q \in starts : q > first}
              whitespace == {c \in first .. Len(next_line) - 1 : is_whitespace(next_line[c + 1])}
              stops == later \cup whitespace \cup {Len(next_line)}
              stop == CHOOSE c \in stops : \A d \in stops : c <= d
          IN  word_end_position(PanelLines, detail_view_cursor_line, detail_view_cursor_col)
                 = <<detail_view_cursor_line + 1, stop - 1>>

\* The cursor is on the empty line above the date line, whose first run is the single
\* calendar sign at column 0.
C33_AboveASingleCharacterRun ==
    /\ InDetail
    /\ PanelCursor = <<1, 0>>
    /\ Len(PanelLines[2]) = 0
    /\ 0 \in WordStarts(PanelLines[3]) /\ 1 \notin WordStarts(PanelLines[3])
    /\ is_whitespace(PanelLines[3][2])

\* C34: in Normal mode, in every view, 'j' and 'k' keep selected_date and move
\* selected_event_index by one, staying between 0 and the count of events less one,
\* when the selected date has an event; they move selected_date by +7 and -7 days when
\* the selected date has none.
C34_JKNavigateEventsOrWeeks ==
    InNormal =>
        \A order \in get_events_for_date(events, selected_date) :
            LET count == Cardinality(EventsOn(events, selected_date))
                down == normal_mode_handle_key("j", App, order)
                up == normal_mode_handle_key("k", App, order)
            IN  IF count > 0
                THEN /\ down.selected_date = selected_date
                     /\ up.selected_date = selected_date
                     /\ down.selected_event_index
                           = IF selected_event_index < count - 1
                             THEN selected_event_index + 1 ELSE selected_event_index
                     /\ up.selected_event_index
                           = IF selected_event_index > 0
                             THEN selected_event_index - 1 ELSE selected_event_index
                ELSE /\ down.selected_date = selected_date + 7
                     /\ up.selected_date = selected_date - 7

\* The Day view shows a date with no event, and 'j' leaves the date alone.
C34_DayViewOfAnEmptyDate ==
    /\ InNormal
    /\ view = "Day"
    /\ EventsOn(events, selected_date) = {}
    /\ \A order \in get_events_for_date(events, selected_date) :
          normal_mode_handle_key("j", App, order).selected_date = selected_date

\* C35: opening the Event Form of the selected event with 'E' and pressing Enter at
\* once, the update succeeding, stores under the same id an event with the same start,
\* the same end and the same all_day flag, for a timed and for an all-day event.
C35_EditWithoutChangeIsARoundTrip ==
    InNormal =>
        \A order \in get_events_for_date(events, selected_date) :
            LET selected == get_selected_event(App, order)
                opened == normal_mode_handle_key("E", App, order)
                after == handle_insert_mode("Enter", opened, Outcome(TRUE, NoEvents, "e1"))
            IN  IsSome(selected) =>
                    LET event == Unwrap(selected)
                    IN  /\ opened.mode = "Insert"
                        /\ event.id \in DOMAIN after.events
                        /\ after.events[event.id].start = event.start
                        /\ after.events[event.id].end = event.end
                        /\ after.events[event.id].all_day = event.all_day

\* An all-day event of two days is selected; edited without a change it is stored
\* lasting 365 days.
C35_AllDayEventSelected ==
    /\ InNormal
    /\ \E order \in get_events_for_date(events, selected_date) :
          LET selected == get_selected_event(App, order)
          IN  /\ IsSome(selected)
              /\ Unwrap(selected).all_day
              /\ Unwrap(selected).end = Unwrap(selected).start + 2 * MinutesPerDay
              /\ handle_insert_mode("Enter", normal_mode_handle_key("E", App, order),
                                    Outcome(TRUE, NoEvents, "e1")
                    ).events[Unwrap(selected).id].end
                     = Unwrap(selected).start + 365 * MinutesPerDay

\* C36: in every reachable state mode is Visual exactly when one of
\* visual_selection_start and delete_confirmation_event_id is present, the two are
\* never present together, and in Normal, Insert and Command mode both are absent.
C36_VisualHasAnchorOrConfirmation ==
    /\ mode = "Visual" <=>
          (IsSome(visual_selection_start) \/ IsSome(delete_confirmation_event_id))
    /\ ~(IsSome(visual_selection_start) /\ IsSome(delete_confirmation_event_id))

\* The delete confirmation is shown for an event: Visual mode without a date anchor.
C36_ConfirmationWithoutAnchor ==
    /\ running
    /\ mode = "Visual"
    /\ IsSome(delete_confirmation_event_id)
    /\ ~IsSome(visual_selection_start)

\* C37: in every reachable state in which the detail panel is open
\* (detail_view_event_id present), mode is Normal, the help overlay is not shown, and
\* the id is the id of an event held in events.
C37_PanelOpenOnlyInNormalOverAnEvent ==
    IsSome(detail_view_event_id) =>
        /\ mode = "Normal"
        /\ ~show_help
        /\ Unwrap(detail_view_event_id) \in DOMAIN events
        /\ events[Unwrap(detail_view_event_id)].id = Unwrap(detail_view_event_id)

\* The panel is open on the second event of the day.
C37_PanelOverSecondEvent ==
    /\ running
    /\ IsSome(detail_view_event_id)
    /\ selected_event_index = 1
    /\ Unwrap(detail_view_event_id) = "e2"

\* C38: in every reachable state with an Event Form, start_hour <= 23 and
\* start_minute <= 59, before and after the parse that Enter performs, so Enter in
\* Insert mode never ends the session, whatever the collaborator answers.
C38_CommitNeverFatal ==
    IsSome(event_form) =>
        LET form == Unwrap(event_form)
            parsed == parse_duration_input(parse_time_input(form))
        IN  /\ form.start_hour <= 23 /\ form.start_minute <= 59
            /\ parsed.start_hour <= 23 /\ parsed.start_minute <= 59
            /\ IsSome(and_hms_opt(parsed.date, parsed.start_hour, parsed.start_minute))
            /\ InInsert =>
                  \A outcome \in PlainOutcomes :
                      handle_insert_mode("Enter", App, outcome).running

\* The StartTime buffer holds 99 and has not been parsed: Enter stores the hour 23.
C38_HourOutOfRangeTyped ==
    /\ InInsert
    /\ IsSome(event_form)
    /\ Unwrap(event_form).active_field = "StartTime"
    /\ Unwrap(event_form).time_input_buffer = <<"9", "9">>
    /\ parse_time_input(Unwrap(event_form)).start_hour = 23

\* Texts for the word motions: one line or two lines of up to MaxMotionLen characters,
\* each a letter, a sign or a space.
MaxMotionLen == 3
MotionLineTexts == UNION { [1 .. n -> {"a", "-", " "}] : n \in 0 .. MaxMotionLen }
MotionTexts ==
    {<<first>> : first \in MotionLineTexts}
        \cup {<<first, second>> : first \in MotionLineTexts, second \in MotionLineTexts}

\* position is a position inside lines.
InsideText(lines, position) ==
    /\ position[1] \in 0 .. Len(lines) - 1
    /\ position[2] \in 0 .. Max(0, Len(lines[position[1] + 1]) - 1)

MotionsInside(lines, line_idx, col) ==
    /\ InsideText(lines, next_word_position(lines, line_idx, col))
    /\ InsideText(lines, prev_word_position(lines, line_idx, col))
    /\ InsideText(lines, word_end_position(lines, line_idx, col))

\* The three motions from every cursor of every text of MotionTexts, the cursors one
\* line past the last line and two columns past the longest line included.
MotionsInsideSmallTexts ==
    \A lines \in MotionTexts :
        \A line_idx \in 0 .. Len(lines), col \in 0 .. MaxMotionLen + 1 :
            MotionsInside(lines, line_idx, col)

\* C39: for every non-empty sequence of lines and every cursor, a line index past the
\* last line and a column past the end of its line included, the next-word,
\* previous-word and word-end motions return a position inside the text: a line below
\* the number of lines and a column of at most max(0, length of that line - 1).
C39_WordMotionsStayInsideText ==
    /\ MotionsInsideSmallTexts
    /\ InDetail =>
          /\ PanelLines # <<>>
          /\ MotionsInside(PanelLines, detail_view_cursor_line, detail_view_cursor_col)

\* The cursor is past the last line of the panel (G) and past the end of every line.
C39_CursorOutsideText ==
    /\ InDetail
    /\ detail_view_cursor_line >= Len(PanelLines)
    /\ detail_view_cursor_col > MaxPanelCol - 2
    /\ next_word_position(PanelLines, detail_view_cursor_line, detail_view_cursor_col)
          = <<Len(PanelLines) - 1, 0>>

\* C40: an event is listed (get_events_for_date), selectable (get_selected_event) and
\* flagged has_events in the grid of the month of D, on date D, exactly when the date
\* of its start is D: an event spanning several days is on its first day only, not on
\* the later days of its range.
C40_EventOnItsStartDateOnly ==
    LET layout == calculate_layout(App)
    IN  /\ \A id \in DOMAIN events :
              \A D \in (date_naive(events[id].start) - 1) .. (date_naive(events[id].end) + 1) :
                  LET starts_on == date_naive(events[id].start) = D
                      orders == get_events_for_date(events, D)
                      on == [App EXCEPT !.selected_date = D]
                  IN  /\ orders # {}
                      /\ \A order \in orders :
                            /\ (\E i \in DOMAIN order : order[i] = id) <=> starts_on
                            /\ (\E index \in 0 .. Cardinality(DOMAIN events) :
                                   get_selected_event([on EXCEPT !.selected_event_index = index],
                                                      order) = Some(events[id]))
                                  <=> starts_on
        /\ \A w \in DOMAIN layout.weeks : \A i \in DOMAIN layout.weeks[w] :
              LET cell == layout.weeks[w][i]
              IN  cell.is_current_month =>
                      (cell.has_events <=>
                          \E id \in DOMAIN events :
                              date_naive(events[id].start) = Unwrap(cell.date))

\* The all-day event committed from a two-day Visual selection is held and the first
\* day of its range is selected: the event is listed there and nothing is listed on
\* the second day.
C40_TwoDayEventHeld ==
    /\ InNormal
    /\ \E id \in DOMAIN events :
          /\ events[id].all_day
          /\ events[id].end = events[id].start + 2 * MinutesPerDay
          /\ selected_date = date_naive(events[id].start)
          /\ get_events_for_date(events, selected_date) = {<<id>>}
          /\ get_events_for_date(events, selected_date + 1) = {<<>>}
          /\ month(selected_date + 1) = month(selected_date)

====
